---- MODULE Spec2Model ----
(***************************************************************************)
(* State-machine model of the AMQP messenger of the IoT device client      *)
(* (iothub_client/src/iothubtransport_amqp_messenger.c): the messenger     *)
(* state machine, the sender/receiver link lifecycle, the send queue with  *)
(* its completion routing, and the host-driven do_work tick.               *)
(*                                                                         *)
(* The uAMQP message sender/receiver, the clock and the host application   *)
(* are the environment: their results are inputs of the actions.           *)
(* message_queue.c and is_timeout_reached (iothub_client_retry_control.c)  *)
(* are modelled from their documented contract.                            *)
(***************************************************************************)
EXTENDS Integers, Sequences, FiniteSets, TLC

(* ------------------------------ bounds -------------------------------- *)

\* number of MESSAGE_SEND_CONTEXT slots that can be outstanding at once
MaxMsgs == 2
\* the clock stops advancing here
MaxTime == 899
\* send failures the environment produces before it stops producing them
MaxSendErrors == 2
\* the same where the send-failure threshold is to be crossed
MaxCountedErrors == 11
\* messages the peer delivers to the message receiver
MaxDeliveries == 1

\* the instants at which the host makes its calls: 299 s and 301 s apart, so
\* that both sides of the 300 s and 600 s limits are met
TimePoints == {t \in {0, 299, 600, 899} : t <= MaxTime}

(* ------------------------- program constants -------------------------- *)

INDEFINITE_TIME == -1
DEFAULT_EVENT_SEND_RETRY_LIMIT == 0
DEFAULT_EVENT_SEND_TIMEOUT_SECS == 600
DEFAULT_MAX_SEND_ERROR_COUNT == 10
MAX_MESSAGE_SENDER_STATE_CHANGE_TIMEOUT_SECS == 300
MAX_MESSAGE_RECEIVER_STATE_CHANGE_TIMEOUT_SECS == 300
RESULT_OK == 0
FAILURE == 1

AMQP_MESSENGER_STATE == {"STARTING", "STARTED", "STOPPING", "STOPPED", "ERROR"}
MESSAGE_SENDER_STATE == {"IDLE", "OPENING", "OPEN", "CLOSING", "ERROR"}
MESSAGE_RECEIVER_STATE == {"IDLE", "OPENING", "OPEN", "CLOSING", "ERROR"}
AMQP_MESSENGER_SEND_RESULT ==
    {"OK", "ERROR_CANNOT_PARSE", "ERROR_FAIL_SENDING", "ERROR_TIMEOUT", "MESSENGER_DESTROYED"}
MESSAGE_QUEUE_RESULT == {"SUCCESS", "ERROR", "TIMEOUT", "CANCELLED"}
MESSAGE_SEND_RESULT == {"MESSAGE_SEND_OK", "MESSAGE_SEND_ERROR"}

AMQP_MESSENGER_DISPOSITION_RESULT == {"NONE", "ACCEPTED", "REJECTED", "RELEASED"}

MsgIds == 1..MaxMsgs
\* the delivery numbers the receiver gives the inbound messages
Deliveries == 1..MaxDeliveries
NULL == "NULL"
Sessions == {NULL, "session"}

(* ------------------------------- state -------------------------------- *)

VARIABLES
    instance,   \* AMQP_MESSENGER_INSTANCE
    send_queue, \* MESSAGE_QUEUE owned by the instance
    contexts,   \* MESSAGE_SEND_CONTEXT and cloned message, per slot
    uamqp,      \* the uAMQP objects behind message_sender / message_receiver
    inbound,    \* per delivery: its AMQP_MESSENGER_MESSAGE_DISPOSITION_INFO and
                \* the dispositions the peer got for it
    observed,   \* what the host saw: events of the last call, user callbacks
    now,        \* get_time(NULL)
    lifecycle,  \* "created" | "destroyed" | "aborted"
    last_call   \* the last public call or environment callback and its result

vars ==
    <<instance, send_queue, contexts, uamqp, inbound, observed, now, lifecycle, last_call>>

\* the program state an operation works on
World ==
    [i |-> instance, q |-> send_queue, c |-> contexts, t |-> uamqp, d |-> inbound,
     g |-> observed, now |-> now]

Commit(w) ==
    /\ instance' = w.i
    /\ send_queue' = w.q
    /\ contexts' = w.c
    /\ uamqp' = w.t
    /\ inbound' = w.d
    /\ observed' = w.g

(* ------------------------------ helpers ------------------------------- *)

Range(s) == {s[k] : k \in 1..Len(s)}

RemoveAt(s, k) == SubSeq(s, 1, k - 1) \o SubSeq(s, k + 1, Len(s))

IndexOf(s, x) == IF x \in Range(s) THEN CHOOSE k \in 1..Len(s) : s[k] = x ELSE 0

Log(w, e, a, b) ==
    [w EXCEPT !.g.events = Append(@, [e |-> e, a |-> a, b |-> b])]

\* a call starts with an empty event list
Begin(w) == [w EXCEPT !.g.events = <<>>]

\* an access the C standard leaves undefined
Undefined(w, what) == Log(w, "undefined_behaviour", what, "")

EventsOf(e) == SelectSeq(observed.events, LAMBDA x : x.e = e)

(* --------------------- messenger state and observer ------------------- *)

\* variant: the previous state is read after the new one has been stored
update_messenger_state_reads_late(w, new_state) ==
    IF new_state # w.i.state
    THEN LET w1 == [w EXCEPT !.i.state = new_state]
             previous_state == w1.i.state
         IN  Log(w1, "state_changed", previous_state, new_state)
    ELSE w

update_messenger_state(w, new_state) ==
    IF new_state # w.i.state
    THEN LET previous_state == w.i.state
         IN  Log([w EXCEPT !.i.state = new_state],
                 "state_changed", previous_state, new_state)
    ELSE w

(* --------------------------- sender lifecycle ------------------------- *)

on_message_sender_state_changed_callback(w, new_state, previous_state) ==
    IF new_state # previous_state
    THEN [w EXCEPT !.i.message_sender_current_state = new_state,
                   !.i.message_sender_previous_state = previous_state,
                   !.i.last_message_sender_state_change_time = w.now]
    ELSE w

\* the uAMQP message sender moves to new_state and tells its observer
messagesender_set_state(w, new_state) ==
    on_message_sender_state_changed_callback(
        [w EXCEPT !.t.sender_state = new_state], new_state, w.t.sender_state)

RECURSIVE messagesender_reports(_, _)
messagesender_reports(w, states) ==
    IF states = <<>> THEN w
    ELSE messagesender_reports(messagesender_set_state(w, Head(states)), Tail(states))

destroy_message_sender(w) ==
    LET w1 == IF w.i.message_sender
              THEN [w EXCEPT !.i.message_sender = FALSE,
                             !.i.message_sender_current_state = "IDLE",
                             !.i.message_sender_previous_state = "IDLE",
                             !.i.last_message_sender_state_change_time = INDEFINITE_TIME,
                             !.t.sender_state = "NONE",
                             !.t.outgoing = {}]
              ELSE w
        w2 == IF w1.i.sender_link THEN [w1 EXCEPT !.i.sender_link = FALSE] ELSE w1
    IN  Log(w2, "destroy_message_sender",
            IF w.i.message_sender THEN "destroyed" ELSE "absent", "")

SenderFailSteps ==
    {"none", "strings", "link_create", "attach_properties", "messagesender_create",
     "messagesender_open"}

\* what messagesender_open may tell the observer before it returns
SenderOpenReports(fail_step) ==
    IF fail_step = "none" THEN {<<>>, <<"OPENING">>}
    ELSE IF fail_step = "messagesender_open" THEN {<<>>, <<"OPENING", "IDLE">>}
    ELSE {<<>>}

\* variant: the link is left behind when messagesender_create fails
create_message_sender_keeps_link(w, fail_step, reports) ==
    IF fail_step \in {"strings", "link_create"}
    THEN [w |-> Log(w, "create_message_sender", "failed", ""), result |-> FAILURE]
    ELSE IF fail_step = "attach_properties"
    THEN [w |-> Log([w EXCEPT !.i.sender_link = FALSE],
                    "create_message_sender", "failed", ""),
          result |-> FAILURE]
    ELSE IF fail_step = "messagesender_create"
    THEN [w |-> Log([w EXCEPT !.i.sender_link = TRUE],
                    "create_message_sender", "failed", ""),
          result |-> FAILURE]
    ELSE LET w1 == [w EXCEPT !.i.sender_link = TRUE,
                             !.i.message_sender = TRUE,
                             !.t.sender_state = "IDLE",
                             !.t.outgoing = {}]
             w2 == messagesender_reports(w1, reports)
         IN  IF fail_step = "messagesender_open"
             THEN [w |-> Log([w2 EXCEPT !.i.message_sender = FALSE,
                                        !.i.sender_link = FALSE,
                                        !.t.sender_state = "NONE"],
                             "create_message_sender", "failed", ""),
                   result |-> FAILURE]
             ELSE [w |-> Log(w2, "create_message_sender", "ok", ""),
                   result |-> RESULT_OK]

create_message_sender(w, fail_step, reports) ==
    IF fail_step \in {"strings", "link_create"}
    THEN [w |-> Log(w, "create_message_sender", "failed", ""), result |-> FAILURE]
    ELSE IF fail_step = "attach_properties"
    THEN [w |-> Log([w EXCEPT !.i.sender_link = FALSE],
                    "create_message_sender", "failed", ""),
          result |-> FAILURE]
    ELSE IF fail_step = "messagesender_create"
    THEN [w |-> Log([w EXCEPT !.i.sender_link = FALSE],
                    "create_message_sender", "failed", ""),
          result |-> FAILURE]
    ELSE LET w1 == [w EXCEPT !.i.sender_link = TRUE,
                             !.i.message_sender = TRUE,
                             !.t.sender_state = "IDLE",
                             !.t.outgoing = {}]
             w2 == messagesender_reports(w1, reports)
         IN  IF fail_step = "messagesender_open"
             THEN [w |-> Log([w2 EXCEPT !.i.message_sender = FALSE,
                                        !.i.sender_link = FALSE,
                                        !.t.sender_state = "NONE"],
                             "create_message_sender", "failed", ""),
                   result |-> FAILURE]
             ELSE [w |-> Log(w2, "create_message_sender", "ok", ""),
                   result |-> RESULT_OK]

(* -------------------------- receiver lifecycle ------------------------ *)

on_message_receiver_state_changed_callback(w, new_state, previous_state) ==
    IF new_state # previous_state
    THEN [w EXCEPT !.i.message_receiver_current_state = new_state,
                   !.i.message_receiver_previous_state = previous_state,
                   !.i.last_message_receiver_state_change_time = w.now]
    ELSE w

\* the uAMQP message receiver moves to new_state and tells its observer
messagereceiver_set_state(w, new_state) ==
    on_message_receiver_state_changed_callback(
        [w EXCEPT !.t.receiver_state = new_state], new_state, w.t.receiver_state)

RECURSIVE messagereceiver_reports(_, _)
messagereceiver_reports(w, states) ==
    IF states = <<>> THEN w
    ELSE messagereceiver_reports(messagereceiver_set_state(w, Head(states)), Tail(states))

destroy_message_receiver(w) ==
    LET w1 == IF w.i.message_receiver
              THEN [w EXCEPT !.i.message_receiver = FALSE,
                             !.i.message_receiver_current_state = "IDLE",
                             !.i.message_receiver_previous_state = "IDLE",
                             !.i.last_message_receiver_state_change_time = INDEFINITE_TIME,
                             !.t.receiver_state = "NONE"]
              ELSE w
        w2 == IF w1.i.receiver_link THEN [w1 EXCEPT !.i.receiver_link = FALSE] ELSE w1
    IN  Log(w2, "destroy_message_receiver",
            IF w.i.message_receiver THEN "destroyed" ELSE "absent", "")

ReceiverFailSteps ==
    {"none", "strings", "link_create", "link_set_rcv_settle_mode", "attach_properties",
     "messagereceiver_create", "messagereceiver_open"}

\* what messagereceiver_open may tell the observer before it returns
ReceiverOpenReports(fail_step) ==
    IF fail_step = "none" THEN {<<>>, <<"OPENING">>}
    ELSE IF fail_step = "messagereceiver_open" THEN {<<>>, <<"OPENING", "ERROR">>}
    ELSE {<<>>}

create_message_receiver(w, fail_step, reports) ==
    IF fail_step \in {"strings", "link_create"}
    THEN [w |-> Log(w, "create_message_receiver", "failed", ""), result |-> FAILURE]
    ELSE IF fail_step \in {"link_set_rcv_settle_mode", "attach_properties",
                           "messagereceiver_create"}
    THEN [w |-> Log([w EXCEPT !.i.receiver_link = FALSE],
                    "create_message_receiver", "failed", ""),
          result |-> FAILURE]
    ELSE LET w1 == [w EXCEPT !.i.receiver_link = TRUE,
                             !.i.message_receiver = TRUE,
                             !.t.receiver_state = "IDLE"]
             w2 == messagereceiver_reports(w1, reports)
         IN  IF fail_step = "messagereceiver_open"
             THEN [w |-> Log([w2 EXCEPT !.i.message_receiver = FALSE,
                                        !.i.receiver_link = FALSE,
                                        !.t.receiver_state = "NONE"],
                             "create_message_receiver", "failed", ""),
                   result |-> FAILURE]
             ELSE [w |-> Log(w2, "create_message_receiver", "ok", ""),
                   result |-> RESULT_OK]

(* ------------------ send contexts and completion routing -------------- *)

message_destroy(w, id) ==
    IF w.c[id].message = "destroyed"
    THEN Undefined(w, "message_destroy of a destroyed message")
    ELSE [w EXCEPT !.c[id].message = "destroyed"]

\* free(context): the fields of the context are gone with it
destroy_message_send_context(w, id) ==
    [w EXCEPT !.c[id].context = "freed", !.c[id].is_destroyed = FALSE]

\* the completion the messenger registers with every queued message
\* variant: a cancelled message is reported as destroyed in every state
on_message_processing_completed_callback_ignores_state(w, id, result) ==
    LET messenger_send_result ==
            IF result = "SUCCESS" THEN "OK"
            ELSE IF result = "TIMEOUT" THEN "ERROR_TIMEOUT"
            ELSE IF result = "CANCELLED" THEN "MESSENGER_DESTROYED"
            ELSE "ERROR_FAIL_SENDING"
        w1 == IF messenger_send_result = "ERROR_FAIL_SENDING"
              THEN [w EXCEPT !.i.send_error_count = @ + 1]
              ELSE w
        w2 == Log(Log([w1 EXCEPT !.g.completions[id] = @ + 1,
                                 !.g.accepted = SelectSeq(@, LAMBDA x : x # id),
                                 !.g.streak =
                                     IF ~@.counted THEN @
                                     ELSE IF messenger_send_result = "ERROR_FAIL_SENDING"
                                     THEN [@ EXCEPT !.n = @ + 1]
                                     ELSE [@ EXCEPT !.n = 0]],
                      "processing_completed", result, w.i.state),
                  "send_complete", ToString(id), messenger_send_result)
        w3 == IF ~w2.c[id].is_destroyed THEN message_destroy(w2, id) ELSE w2
    IN  destroy_message_send_context(w3, id)

\* variant: a send that succeeds clears the count of failed sends
on_message_processing_completed_callback_resets_on_success(w, id, result) ==
    LET messenger_send_result ==
            IF result = "SUCCESS" THEN "OK"
            ELSE IF result = "TIMEOUT" THEN "ERROR_TIMEOUT"
            ELSE IF result = "CANCELLED" /\ w.i.state = "STOPPED" THEN "MESSENGER_DESTROYED"
            ELSE "ERROR_FAIL_SENDING"
        w1 == IF messenger_send_result = "ERROR_FAIL_SENDING"
              THEN [w EXCEPT !.i.send_error_count = @ + 1]
              ELSE IF messenger_send_result = "OK"
              THEN [w EXCEPT !.i.send_error_count = 0]
              ELSE w
        w2 == Log(Log([w1 EXCEPT !.g.completions[id] = @ + 1,
                                 !.g.accepted = SelectSeq(@, LAMBDA x : x # id),
                                 !.g.streak =
                                     IF ~@.counted THEN @
                                     ELSE IF messenger_send_result = "ERROR_FAIL_SENDING"
                                     THEN [@ EXCEPT !.n = @ + 1]
                                     ELSE [@ EXCEPT !.n = 0]],
                      "processing_completed", result, w.i.state),
                  "send_complete", ToString(id), messenger_send_result)
        w3 == IF ~w2.c[id].is_destroyed THEN message_destroy(w2, id) ELSE w2
    IN  destroy_message_send_context(w3, id)

on_message_processing_completed_callback(w, id, result) ==
    LET messenger_send_result ==
            IF result = "SUCCESS" THEN "OK"
            ELSE IF result = "TIMEOUT" THEN "ERROR_TIMEOUT"
            ELSE IF result = "CANCELLED" /\ w.i.state = "STOPPED" THEN "MESSENGER_DESTROYED"
            ELSE "ERROR_FAIL_SENDING"
        w1 == IF messenger_send_result = "ERROR_FAIL_SENDING"
              THEN [w EXCEPT !.i.send_error_count = @ + 1]
              ELSE w
        w2 == Log(Log([w1 EXCEPT !.g.completions[id] = @ + 1,
                                 !.g.accepted = SelectSeq(@, LAMBDA x : x # id),
                                 !.g.streak =
                                     IF ~@.counted THEN @
                                     ELSE IF messenger_send_result = "ERROR_FAIL_SENDING"
                                     THEN [@ EXCEPT !.n = @ + 1]
                                     ELSE [@ EXCEPT !.n = 0]],
                      "processing_completed", result, w.i.state),
                  "send_complete", ToString(id), messenger_send_result)
        w3 == IF ~w2.c[id].is_destroyed THEN message_destroy(w2, id) ELSE w2
    IN  destroy_message_send_context(w3, id)

(* ------------------------------ send queue ---------------------------- *)

message_queue_is_empty(q) == q.pending = <<>> /\ q.in_progress = <<>>

message_queue_add(w, id) ==
    [w EXCEPT !.q.pending = Append(@, id), !.q.enqueue_time[id] = w.now]

\* the queue reports an item as completed and frees the item
fire_message_callback(w, id, result) ==
    [on_message_processing_completed_callback(w, id, result)
        EXCEPT !.q.enqueue_time[id] = INDEFINITE_TIME]

\* the completion token the queue hands to on_process_message_callback
mq_on_process_message_completed_callback(w, id, result) ==
    IF id \in Range(w.q.in_progress)
    THEN fire_message_callback(
             [w EXCEPT !.q.in_progress = RemoveAt(@, IndexOf(@, id))], id, result)
    ELSE w

mq_is_timeout_reached(w, id) ==
    /\ w.q.max_message_enqueued_time_secs > 0
    /\ w.now - w.q.enqueue_time[id] >= w.q.max_message_enqueued_time_secs

\* variant: the in-flight items are put back behind the pending ones
message_queue_move_all_back_to_pending_at_the_tail(w, ok) ==
    IF ok
    THEN [w |-> Log([w EXCEPT !.q.pending = @ \o w.q.in_progress,
                              !.q.in_progress = <<>>],
                    "move_all_back_to_pending", "ok", ""),
          result |-> RESULT_OK]
    ELSE [w |-> Log(w, "move_all_back_to_pending", "failed", ""), result |-> FAILURE]

message_queue_move_all_back_to_pending(w, ok) ==
    IF ok
    THEN [w |-> Log([w EXCEPT !.q.pending = w.q.in_progress \o @,
                              !.q.in_progress = <<>>],
                    "move_all_back_to_pending", "ok", ""),
          result |-> RESULT_OK]
    ELSE [w |-> Log(w, "move_all_back_to_pending", "failed", ""), result |-> FAILURE]

(* --------------------- hand-over to the message sender ---------------- *)

on_send_complete_callback(w, id, send_result) ==
    LET mq_result == IF send_result = "MESSAGE_SEND_OK" THEN "SUCCESS" ELSE "ERROR"
    IN  IF w.c[id].context = "freed"
        THEN mq_on_process_message_completed_callback(
                 Undefined(w, "on_send_complete_callback reads a freed context"),
                 id, mq_result)
        ELSE mq_on_process_message_completed_callback(w, id, mq_result)

on_process_message_callback(w, id, send_ok) ==
    LET w1 == IF w.c[id].message = "destroyed"
              THEN Undefined(w, "messagesender_send of a destroyed message")
              ELSE w
        w2 == Log(w1, "messagesender_send", ToString(id),
                  IF send_ok THEN "ok" ELSE "failed")
        w3 == IF send_ok
              THEN [w2 EXCEPT !.t.outgoing = @ \cup {id}]
              ELSE mq_on_process_message_completed_callback(w2, id, "ERROR")
        w4 == message_destroy(w3, id)
    IN  IF w4.c[id].context = "freed"
        THEN Undefined(w4, "is_destroyed written to a freed context")
        ELSE [w4 EXCEPT !.c[id].is_destroyed = TRUE]

RECURSIVE process_timeouts_pending(_)
process_timeouts_pending(w) ==
    IF w.q.pending # <<>> /\ mq_is_timeout_reached(w, Head(w.q.pending))
    THEN process_timeouts_pending(
             fire_message_callback(
                 [w EXCEPT !.q.pending = Tail(@)], Head(w.q.pending), "TIMEOUT"))
    ELSE w

RECURSIVE process_timeouts_in_progress(_, _)
process_timeouts_in_progress(w, k) ==
    IF k > Len(w.q.in_progress) THEN w
    ELSE IF mq_is_timeout_reached(w, w.q.in_progress[k])
    THEN process_timeouts_in_progress(
             fire_message_callback(
                 [w EXCEPT !.q.in_progress = RemoveAt(@, k)],
                 w.q.in_progress[k], "TIMEOUT"),
             k)
    ELSE process_timeouts_in_progress(w, k + 1)

process_timeouts(w) == process_timeouts_in_progress(process_timeouts_pending(w), 1)

RECURSIVE process_pending_messages(_, _)
process_pending_messages(w, send_failures) ==
    IF w.q.pending = <<>> THEN w
    ELSE LET id == Head(w.q.pending)
             w1 == [w EXCEPT !.q.pending = Tail(@), !.q.in_progress = Append(@, id)]
         IN  process_pending_messages(
                 on_process_message_callback(w1, id, id \notin send_failures),
                 send_failures)

message_queue_do_work(w, send_failures) ==
    process_pending_messages(process_timeouts(w), send_failures)

RECURSIVE mq_cancel_all(_, _)
mq_cancel_all(w, ids) ==
    IF ids = <<>> THEN w
    ELSE mq_cancel_all(
             fire_message_callback(w, Head(ids), "CANCELLED"),
             Tail(ids))

message_queue_remove_all(w) ==
    mq_cancel_all([w EXCEPT !.q.pending = <<>>, !.q.in_progress = <<>>],
                  w.q.in_progress \o w.q.pending)

message_queue_destroy(w) == message_queue_remove_all(w)

(* ------------------------- messenger state machine -------------------- *)

\* [result, is_timed_out] of is_timeout_reached(start_time, timeout_in_secs, &is_timed_out)
is_timeout_reached(start_time, timeout_in_secs, current_time) ==
    IF start_time = INDEFINITE_TIME
    THEN [result |-> FAILURE, is_timed_out |-> FALSE]
    ELSE [result |-> RESULT_OK,
          is_timed_out |-> current_time - start_time >= timeout_in_secs]

\* variant: a sender that reports CLOSING while starting is waited for
process_state_changes_tolerates_closing(w) ==
    IF w.i.state = "STARTED"
    THEN IF w.i.message_sender_current_state # "OPEN"
         THEN update_messenger_state(w, "ERROR")
         ELSE IF w.i.message_receiver /\ w.i.message_receiver_current_state # "OPEN"
         THEN IF w.i.message_receiver_current_state = "OPENING"
              THEN LET t == is_timeout_reached(
                                w.i.last_message_receiver_state_change_time,
                                MAX_MESSAGE_RECEIVER_STATE_CHANGE_TIMEOUT_SECS, w.now)
                   IN  IF t.result # RESULT_OK THEN update_messenger_state(w, "ERROR")
                       ELSE IF t.is_timed_out THEN update_messenger_state(w, "ERROR")
                       ELSE w
              ELSE IF w.i.message_receiver_current_state \in {"ERROR", "IDLE"}
              THEN update_messenger_state(w, "ERROR")
              ELSE w
         ELSE w
    ELSE IF w.i.state = "STARTING"
    THEN IF w.i.message_sender_current_state = "OPEN"
         THEN update_messenger_state(w, "STARTED")
         ELSE IF w.i.message_sender_current_state = "OPENING"
         THEN LET t == is_timeout_reached(
                           w.i.last_message_sender_state_change_time,
                           MAX_MESSAGE_SENDER_STATE_CHANGE_TIMEOUT_SECS, w.now)
              IN  IF t.result # RESULT_OK THEN update_messenger_state(w, "ERROR")
                  ELSE IF t.is_timed_out THEN update_messenger_state(w, "ERROR")
                  ELSE w
         ELSE IF \/ w.i.message_sender_current_state = "ERROR"
                 \/ (w.i.message_sender_current_state = "IDLE" /\ w.i.message_sender)
         THEN update_messenger_state(w, "ERROR")
         ELSE w
    ELSE w

\* variant: a receiver that reports IDLE while started is waited for
process_state_changes_tolerates_idle_receiver(w) ==
    IF w.i.state = "STARTED"
    THEN IF w.i.message_sender_current_state # "OPEN"
         THEN update_messenger_state(w, "ERROR")
         ELSE IF w.i.message_receiver /\ w.i.message_receiver_current_state # "OPEN"
         THEN IF w.i.message_receiver_current_state = "OPENING"
              THEN LET t == is_timeout_reached(
                                w.i.last_message_receiver_state_change_time,
                                MAX_MESSAGE_RECEIVER_STATE_CHANGE_TIMEOUT_SECS, w.now)
                   IN  IF t.result # RESULT_OK THEN update_messenger_state(w, "ERROR")
                       ELSE IF t.is_timed_out THEN update_messenger_state(w, "ERROR")
                       ELSE w
              ELSE IF w.i.message_receiver_current_state = "ERROR"
              THEN update_messenger_state(w, "ERROR")
              ELSE w
         ELSE w
    ELSE IF w.i.state = "STARTING"
    THEN IF w.i.message_sender_current_state = "OPEN"
         THEN update_messenger_state(w, "STARTED")
         ELSE IF w.i.message_sender_current_state = "OPENING"
         THEN LET t == is_timeout_reached(
                           w.i.last_message_sender_state_change_time,
                           MAX_MESSAGE_SENDER_STATE_CHANGE_TIMEOUT_SECS, w.now)
              IN  IF t.result # RESULT_OK THEN update_messenger_state(w, "ERROR")
                  ELSE IF t.is_timed_out THEN update_messenger_state(w, "ERROR")
                  ELSE w
         ELSE IF \/ w.i.message_sender_current_state = "ERROR"
                 \/ w.i.message_sender_current_state = "CLOSING"
                 \/ (w.i.message_sender_current_state = "IDLE" /\ w.i.message_sender)
         THEN update_messenger_state(w, "ERROR")
         ELSE w
    ELSE w

\* variant: a sender that stays OPENING is waited for without a time limit
process_state_changes_waits_forever(w) ==
    IF w.i.state = "STARTED"
    THEN IF w.i.message_sender_current_state # "OPEN"
         THEN update_messenger_state(w, "ERROR")
         ELSE IF w.i.message_receiver /\ w.i.message_receiver_current_state # "OPEN"
         THEN IF w.i.message_receiver_current_state = "OPENING"
              THEN LET t == is_timeout_reached(
                                w.i.last_message_receiver_state_change_time,
                                MAX_MESSAGE_RECEIVER_STATE_CHANGE_TIMEOUT_SECS, w.now)
                   IN  IF t.result # RESULT_OK THEN update_messenger_state(w, "ERROR")
                       ELSE IF t.is_timed_out THEN update_messenger_state(w, "ERROR")
                       ELSE w
              ELSE IF w.i.message_receiver_current_state \in {"ERROR", "IDLE"}
              THEN update_messenger_state(w, "ERROR")
              ELSE w
         ELSE w
    ELSE IF w.i.state = "STARTING"
    THEN IF w.i.message_sender_current_state = "OPEN"
         THEN update_messenger_state(w, "STARTED")
         ELSE IF w.i.message_sender_current_state = "OPENING"
         THEN LET t == is_timeout_reached(
                           w.i.last_message_sender_state_change_time,
                           MAX_MESSAGE_SENDER_STATE_CHANGE_TIMEOUT_SECS, w.now)
              IN  IF t.result # RESULT_OK THEN update_messenger_state(w, "ERROR")
                  ELSE w
         ELSE IF \/ w.i.message_sender_current_state = "ERROR"
                 \/ w.i.message_sender_current_state = "CLOSING"
                 \/ (w.i.message_sender_current_state = "IDLE" /\ w.i.message_sender)
         THEN update_messenger_state(w, "ERROR")
         ELSE w
    ELSE w

process_state_changes(w) ==
    IF w.i.state = "STARTED"
    THEN IF w.i.message_sender_current_state # "OPEN"
         THEN update_messenger_state(w, "ERROR")
         ELSE IF w.i.message_receiver /\ w.i.message_receiver_current_state # "OPEN"
         THEN IF w.i.message_receiver_current_state = "OPENING"
              THEN LET t == is_timeout_reached(
                                w.i.last_message_receiver_state_change_time,
                                MAX_MESSAGE_RECEIVER_STATE_CHANGE_TIMEOUT_SECS, w.now)
                   IN  IF t.result # RESULT_OK THEN update_messenger_state(w, "ERROR")
                       ELSE IF t.is_timed_out THEN update_messenger_state(w, "ERROR")
                       ELSE w
              ELSE IF w.i.message_receiver_current_state \in {"ERROR", "IDLE"}
              THEN update_messenger_state(w, "ERROR")
              ELSE w
         ELSE w
    ELSE IF w.i.state = "STARTING"
    THEN IF w.i.message_sender_current_state = "OPEN"
         THEN update_messenger_state(w, "STARTED")
         ELSE IF w.i.message_sender_current_state = "OPENING"
         THEN LET t == is_timeout_reached(
                           w.i.last_message_sender_state_change_time,
                           MAX_MESSAGE_SENDER_STATE_CHANGE_TIMEOUT_SECS, w.now)
              IN  IF t.result # RESULT_OK THEN update_messenger_state(w, "ERROR")
                  ELSE IF t.is_timed_out THEN update_messenger_state(w, "ERROR")
                  ELSE w
         ELSE IF \/ w.i.message_sender_current_state = "ERROR"
                 \/ w.i.message_sender_current_state = "CLOSING"
                 \/ (w.i.message_sender_current_state = "IDLE" /\ w.i.message_sender)
         THEN update_messenger_state(w, "ERROR")
         ELSE w
    ELSE w

(* ------------------------ inbound messages ---------------------------- *)

\* pointers to an AMQP_MESSENGER_MESSAGE_DISPOSITION_INFO: the null pointer,
\* the info made for delivery d, an info of the caller's whose source is NULL
NullInfo == [kind |-> "null", d |-> 0]

InfoOf(d) == [kind |-> "delivery", d |-> d]

SourcelessInfo == [kind |-> "no_source", d |-> 0]

DispositionInfoFailSteps ==
    {"none", "malloc", "get_received_message_id", "get_link_name", "copy_link_name"}

\* the delivery d is the one the receiver is handing over: its number and the
\* link name are read from the receiver
create_message_disposition_info(w, d, fail_step) ==
    IF fail_step = "malloc" THEN [w |-> w, result |-> NullInfo]
    ELSE LET w1 == Log(w, "messagereceiver_get_received_message_id", ToString(d),
                       IF fail_step = "get_received_message_id" THEN "failed" ELSE "ok")
         IN  IF fail_step = "get_received_message_id" THEN [w |-> w1, result |-> NullInfo]
             ELSE LET w2 == Log(w1, "messagereceiver_get_link_name", ToString(d),
                                IF fail_step = "get_link_name" THEN "failed" ELSE "ok")
                  IN  IF fail_step \in {"get_link_name", "copy_link_name"}
                      THEN [w |-> w2, result |-> NullInfo]
                      ELSE [w |-> [w2 EXCEPT !.d[d].handle = "live",
                                             !.d[d].message_id = d,
                                             !.d[d].source = "link_name"],
                            result |-> InfoOf(d)]

destroy_message_disposition_info(w, disposition_info) ==
    LET d == disposition_info.d
    IN  IF w.d[d].handle # "live"
        THEN Undefined(w, "free of a disposition info that is not live")
        ELSE Log([w EXCEPT !.d[d].handle = "freed"],
                 "free_disposition_info", ToString(d), "")

\* variant: a rejection is passed on as a release
create_uamqp_disposition_result_from_releases_rejected(disposition_result) ==
    IF disposition_result = "NONE" THEN NULL
    ELSE IF disposition_result = "ACCEPTED" THEN "accepted"
    ELSE IF disposition_result = "RELEASED" THEN "released"
    ELSE IF disposition_result = "REJECTED" THEN "released"
    ELSE NULL

\* variant: no verdict is passed on as a release
create_uamqp_disposition_result_from_answers_none(disposition_result) ==
    IF disposition_result = "NONE" THEN "released"
    ELSE IF disposition_result = "ACCEPTED" THEN "accepted"
    ELSE IF disposition_result = "RELEASED" THEN "released"
    ELSE IF disposition_result = "REJECTED"
    THEN "rejected(Rejected by application, Rejected by application)"
    ELSE NULL

create_uamqp_disposition_result_from(disposition_result) ==
    IF disposition_result = "NONE" THEN NULL
    ELSE IF disposition_result = "ACCEPTED" THEN "accepted"
    ELSE IF disposition_result = "RELEASED" THEN "released"
    ELSE IF disposition_result = "REJECTED"
    THEN "rejected(Rejected by application, Rejected by application)"
    ELSE NULL

\* the peer gets a disposition for the delivery with number message_id
peer_gets_disposition(w, message_id, uamqp_disposition_result) ==
    Log([w EXCEPT !.d[message_id].dispositions = Append(@, uamqp_disposition_result)],
        "disposition", ToString(message_id), uamqp_disposition_result)

\* variant: the info is freed when the send fails, too
amqp_messenger_send_message_disposition_frees_on_failure(w, disposition_info, disposition_result, send_ok) ==
    IF disposition_info = NullInfo THEN [w |-> w, result |-> FAILURE]
    ELSE IF disposition_info = SourcelessInfo THEN [w |-> w, result |-> FAILURE]
    ELSE IF ~w.i.message_receiver THEN [w |-> w, result |-> FAILURE]
    ELSE LET uamqp_disposition_result ==
                 create_uamqp_disposition_result_from(disposition_result)
         IN  IF uamqp_disposition_result = NULL THEN [w |-> w, result |-> FAILURE]
             ELSE IF ~send_ok
             THEN [w |-> destroy_message_disposition_info(
                             Log(w, "messagereceiver_send_message_disposition",
                                 ToString(disposition_info.d), "failed"),
                             disposition_info),
                   result |-> FAILURE]
             ELSE [w |-> destroy_message_disposition_info(
                             peer_gets_disposition(
                                 Log(w, "messagereceiver_send_message_disposition",
                                     ToString(disposition_info.d), "ok"),
                                 w.d[disposition_info.d].message_id,
                                 uamqp_disposition_result),
                             disposition_info),
                   result |-> RESULT_OK]

amqp_messenger_send_message_disposition(w, disposition_info, disposition_result, send_ok) ==
    IF disposition_info = NullInfo THEN [w |-> w, result |-> FAILURE]
    ELSE IF disposition_info = SourcelessInfo THEN [w |-> w, result |-> FAILURE]
    ELSE IF ~w.i.message_receiver THEN [w |-> w, result |-> FAILURE]
    ELSE LET uamqp_disposition_result ==
                 create_uamqp_disposition_result_from(disposition_result)
         IN  IF uamqp_disposition_result = NULL THEN [w |-> w, result |-> FAILURE]
             ELSE IF ~send_ok
             THEN [w |-> Log(w, "messagereceiver_send_message_disposition",
                             ToString(disposition_info.d), "failed"),
                   result |-> FAILURE]
             ELSE [w |-> destroy_message_disposition_info(
                             peer_gets_disposition(
                                 Log(w, "messagereceiver_send_message_disposition",
                                     ToString(disposition_info.d), "ok"),
                                 w.d[disposition_info.d].message_id,
                                 uamqp_disposition_result),
                             disposition_info),
                   result |-> RESULT_OK]

amqp_messenger_destroy_disposition_info(w, disposition_info) ==
    IF disposition_info = NullInfo THEN w
    ELSE destroy_message_disposition_info(w, disposition_info)

\* what the application does in its on_message_received_callback: nothing,
\* a send of the disposition or a destroy of the info, and the verdict
AppReceiveBehaviours ==
    [inside : {"nothing", "send", "destroy"},
     inside_result : AMQP_MESSENGER_DISPOSITION_RESULT,
     inside_send_ok : BOOLEAN,
     verdict : AMQP_MESSENGER_DISPOSITION_RESULT]

app_on_message_received_callback(w, d, app) ==
    LET w1 == IF app.inside = "send"
              THEN LET r == amqp_messenger_send_message_disposition(
                                w, InfoOf(d), app.inside_result, app.inside_send_ok)
                   IN  Log(r.w, "app_send_message_disposition", ToString(d),
                           IF r.result = RESULT_OK THEN "ok" ELSE "failed")
              ELSE IF app.inside = "destroy"
              THEN Log(amqp_messenger_destroy_disposition_info(w, InfoOf(d)),
                       "app_destroy_disposition_info", ToString(d), "")
              ELSE w
    IN  Log(w1, "on_message_received_callback", ToString(d), app.verdict)

\* the value returned to the receiver is the disposition the peer gets
\* variant: a message whose disposition info cannot be created is rejected
on_message_received_internal_callback_rejects_on_failure(w, d, fail_step, app) ==
    LET cr == create_message_disposition_info(w, d, fail_step)
    IN  IF cr.result = NullInfo
        THEN peer_gets_disposition(cr.w, d, "rejected")
        ELSE IF ~cr.w.i.on_message_received_callback
        THEN Undefined(cr.w, "call through a null on_message_received_callback")
        ELSE LET w1 == app_on_message_received_callback(cr.w, d, app)
                 result == create_uamqp_disposition_result_from(app.verdict)
             IN  IF result = NULL THEN w1
                 ELSE peer_gets_disposition(w1, d, result)

on_message_received_internal_callback(w, d, fail_step, app) ==
    LET cr == create_message_disposition_info(w, d, fail_step)
    IN  IF cr.result = NullInfo
        THEN peer_gets_disposition(cr.w, d, "released")
        ELSE IF ~cr.w.i.on_message_received_callback
        THEN Undefined(cr.w, "call through a null on_message_received_callback")
        ELSE LET w1 == app_on_message_received_callback(cr.w, d, app)
                 result == create_uamqp_disposition_result_from(app.verdict)
             IN  IF result = NULL THEN w1
                 ELSE peer_gets_disposition(w1, d, result)

(* ------------------------------ public API ---------------------------- *)

amqp_messenger_subscribe_for_messages(w, callback_given) ==
    IF w.i.receive_messages THEN [w |-> w, result |-> FAILURE]
    ELSE IF ~callback_given THEN [w |-> w, result |-> FAILURE]
    ELSE [w |-> [w EXCEPT !.i.on_message_received_callback = TRUE,
                          !.i.receive_messages = TRUE],
          result |-> RESULT_OK]

amqp_messenger_unsubscribe_for_messages(w) ==
    IF ~w.i.receive_messages THEN [w |-> w, result |-> FAILURE]
    ELSE [w |-> [w EXCEPT !.i.receive_messages = FALSE,
                          !.i.on_message_received_callback = FALSE],
          result |-> RESULT_OK]

SendAsyncFailures == {"none", "message_clone", "create_message_send_context", "message_queue_add"}

amqp_messenger_send_async(w, id, failure) ==
    IF failure # "none" THEN [w |-> w, result |-> FAILURE]
    ELSE [w |-> message_queue_add(
                    [w EXCEPT !.c[id] = [context |-> "live", message |-> "live",
                                         is_destroyed |-> FALSE],
                              !.g.completions[id] = 0,
                              !.g.accepted = Append(@, id)],
                    id),
          result |-> RESULT_OK]

\* the variant that looks at the pending items only
amqp_messenger_get_send_status_pending_only(w) ==
    IF w.q.pending = <<>> THEN "IDLE" ELSE "BUSY"

amqp_messenger_get_send_status(w) ==
    IF message_queue_is_empty(w.q) THEN "IDLE" ELSE "BUSY"

\* the whole call: without a place for the answer it fails and answers nothing
amqp_messenger_get_send_status_into(w, send_status_given) ==
    IF ~send_status_given THEN [send_status |-> NULL, result |-> FAILURE]
    ELSE [send_status |-> amqp_messenger_get_send_status(w), result |-> RESULT_OK]

(* ------------------------------- options ------------------------------ *)

MESSENGER_OPTION_EVENT_SEND_TIMEOUT_SECS == "amqp_event_send_timeout_secs"
MESSENGER_SAVED_MQ_OPTIONS == "amqp_message_queue_options"

\* option values carry a type tag: a size_t behind the pointer, or a nested
\* OPTIONHANDLER_HANDLE (the queue's snapshot, which holds the queue's timeout)
SizeValue(n) == [kind |-> "size_t", n |-> n]
SnapshotValue(n) == [kind |-> "OPTIONHANDLER_HANDLE", n |-> n]
NullValue == [kind |-> NULL, n |-> 0]

\* the queue setter answers 0 when it stored the value
message_queue_set_max_message_enqueued_time_secs(w, seconds, accepts) ==
    IF accepts
    THEN [w |-> [w EXCEPT !.q.max_message_enqueued_time_secs = seconds],
          result |-> RESULT_OK]
    ELSE [w |-> w, result |-> FAILURE]

message_queue_retrieve_options(w) == SnapshotValue(w.q.max_message_enqueued_time_secs)

amqp_messenger_set_option(w, name, value, accepts) ==
    IF name = NULL \/ value = NullValue
    THEN [w |-> w, result |-> FAILURE]
    ELSE IF name = MESSENGER_OPTION_EVENT_SEND_TIMEOUT_SECS
    THEN LET set == message_queue_set_max_message_enqueued_time_secs(
                        Log(w, "message_queue_set_max_message_enqueued_time_secs",
                            ToString(value.n), IF accepts THEN "ok" ELSE "failed"),
                        value.n, accepts)
         IN  IF set.result = 0
             THEN [w |-> set.w, result |-> FAILURE]
             ELSE [w |-> set.w, result |-> RESULT_OK]
    ELSE [w |-> w, result |-> FAILURE]

\* a nested snapshot is deep-copied; no other option can be cloned
amqp_messenger_clone_option(name, value, cloned) ==
    IF name = NULL \/ value = NullValue THEN NullValue
    ELSE IF name = MESSENGER_SAVED_MQ_OPTIONS
    THEN IF cloned THEN value ELSE NullValue
    ELSE NullValue

RetrieveOptionsFailures ==
    {"none", "OptionHandler_Create", "message_queue_retrieve_options",
     "OptionHandler_Clone", "OptionHandler_AddOption"}

\* OptionHandler_AddOption stores a clone of the value under the name
OptionHandler_AddOption(options, name, value, failure) ==
    LET clone == amqp_messenger_clone_option(name, value, failure # "OptionHandler_Clone")
    IN  IF clone = NullValue \/ failure = "OptionHandler_AddOption"
        THEN [options |-> options, result |-> FAILURE]
        ELSE [options |-> Append(options, [name |-> name, value |-> clone]),
              result |-> RESULT_OK]

\* the snapshot is the list of its (name, value) options; <<>> stands for NULL
amqp_messenger_retrieve_options(w, failure) ==
    IF failure \in {"OptionHandler_Create", "message_queue_retrieve_options"} THEN <<>>
    ELSE LET added == OptionHandler_AddOption(<<>>, MESSENGER_SAVED_MQ_OPTIONS,
                                              message_queue_retrieve_options(w), failure)
         IN  IF added.result # RESULT_OK THEN <<>> ELSE added.options

(* ------------------------------- actions ------------------------------ *)

\* the instance as amqp_messenger_create leaves it
CreatedInstance ==
            [state |-> "STOPPED",
             session_handle |-> NULL,
             sender_link |-> FALSE,
             message_sender |-> FALSE,
             message_sender_current_state |-> "IDLE",
             message_sender_previous_state |-> "IDLE",
             last_message_sender_state_change_time |-> INDEFINITE_TIME,
             receiver_link |-> FALSE,
             message_receiver |-> FALSE,
             message_receiver_current_state |-> "IDLE",
             message_receiver_previous_state |-> "IDLE",
             last_message_receiver_state_change_time |-> INDEFINITE_TIME,
             receive_messages |-> FALSE,
             on_message_received_callback |-> FALSE,
             send_link_attach_properties |-> TRUE,
             receive_link_attach_properties |-> TRUE,
             send_error_count |-> 0,
             max_send_error_count |-> DEFAULT_MAX_SEND_ERROR_COUNT]

Constructed(counted) ==
    /\ instance = CreatedInstance
    /\ send_queue =
        [pending |-> <<>>, in_progress |-> <<>>,
         max_retry_count |-> DEFAULT_EVENT_SEND_RETRY_LIMIT,
         max_message_enqueued_time_secs |-> DEFAULT_EVENT_SEND_TIMEOUT_SECS,
         max_message_processing_time_secs |-> 0,
         enqueue_time |-> [id \in MsgIds |-> INDEFINITE_TIME]]
    /\ contexts = [id \in MsgIds |->
                      [context |-> "none", message |-> "none", is_destroyed |-> FALSE]]
    /\ uamqp = [sender_state |-> "NONE", receiver_state |-> "NONE", outgoing |-> {}]
    /\ inbound = [d \in Deliveries |->
                     [handle |-> "none", message_id |-> 0, source |-> NULL,
                      dispositions |-> <<>>]]
    /\ observed = [events |-> <<>>, completions |-> [id \in MsgIds |-> 0],
                   accepted |-> <<>>,
                   streak |-> [counted |-> counted, n |-> 0],
                   restart |-> "none",
                   options |-> <<>>]
    /\ now = 0
    /\ lifecycle = "created"
    /\ last_call = [op |-> "create", arg |-> "", result |-> RESULT_OK]

Init == Constructed(FALSE)

\* the observer counts the failed sends in a row
InitErrors == Constructed(TRUE)

\* a messenger right after amqp_messenger_create
FreshWorld(w) ==
    [w EXCEPT !.i = CreatedInstance,
              !.q = [pending |-> <<>>, in_progress |-> <<>>,
                     max_retry_count |-> DEFAULT_EVENT_SEND_RETRY_LIMIT,
                     max_message_enqueued_time_secs |-> DEFAULT_EVENT_SEND_TIMEOUT_SECS,
                     max_message_processing_time_secs |-> 0,
                     enqueue_time |-> [id \in MsgIds |-> INDEFINITE_TIME]]]

\* OptionHandler_FeedOptions: every stored option goes to the setter the
\* snapshot was created with; the first refusal ends the feed with an error
RECURSIVE OptionHandler_FeedOptions(_, _)
OptionHandler_FeedOptions(options, destination) ==
    IF options = <<>> THEN [w |-> destination, result |-> RESULT_OK]
    ELSE LET set == amqp_messenger_set_option(destination, Head(options).name,
                                              Head(options).value, TRUE)
         IN  IF set.result # 0 THEN [w |-> set.w, result |-> FAILURE]
             ELSE OptionHandler_FeedOptions(Tail(options), set.w)

\* variant: the session is stored before the arguments and the state are checked
amqp_messenger_start_stores_first(w, session_handle) ==
    LET w1 == [w EXCEPT !.i.session_handle = session_handle]
    IN  IF session_handle = NULL THEN [w |-> w1, result |-> FAILURE]
        ELSE IF w1.i.state # "STOPPED" THEN [w |-> w1, result |-> FAILURE]
        ELSE [w |-> update_messenger_state(w1, "STARTING"), result |-> RESULT_OK]

amqp_messenger_start(w, session_handle) ==
    IF session_handle = NULL THEN [w |-> w, result |-> FAILURE]
    ELSE IF w.i.state # "STOPPED" THEN [w |-> w, result |-> FAILURE]
    ELSE [w |-> update_messenger_state(
                    [w EXCEPT !.i.session_handle = session_handle], "STARTING"),
          result |-> RESULT_OK]

\* variant: the queue is rewound before the links are destroyed
amqp_messenger_stop_moves_first(w, move_ok) ==
    IF w.i.state = "STOPPED" THEN [w |-> w, result |-> FAILURE]
    ELSE LET w1 == update_messenger_state(w, "STOPPING")
             mv == message_queue_move_all_back_to_pending(w1, move_ok)
             w2 == destroy_message_sender(mv.w)
             w3 == destroy_message_receiver(w2)
         IN  IF mv.result # RESULT_OK
             THEN [w |-> update_messenger_state(w3, "ERROR"), result |-> FAILURE]
             ELSE [w |-> update_messenger_state(w3, "STOPPED"), result |-> RESULT_OK]

\* variant: stop leaves the message receiver and its link in place
amqp_messenger_stop_keeps_receiver(w, move_ok) ==
    IF w.i.state = "STOPPED" THEN [w |-> w, result |-> FAILURE]
    ELSE LET w1 == update_messenger_state(w, "STOPPING")
             w2 == destroy_message_sender(w1)
             mv == message_queue_move_all_back_to_pending(w2, move_ok)
         IN  IF mv.result # RESULT_OK
             THEN [w |-> update_messenger_state(mv.w, "ERROR"), result |-> FAILURE]
             ELSE [w |-> update_messenger_state(mv.w, "STOPPED"), result |-> RESULT_OK]

\* variant: the stop cancels what is queued
amqp_messenger_stop_cancels_queue(w, move_ok) ==
    IF w.i.state = "STOPPED" THEN [w |-> w, result |-> FAILURE]
    ELSE LET w1 == update_messenger_state(w, "STOPPING")
             w2 == destroy_message_sender(w1)
             w3 == destroy_message_receiver(w2)
             mv == message_queue_move_all_back_to_pending(w3, move_ok)
         IN  IF mv.result # RESULT_OK
             THEN [w |-> update_messenger_state(mv.w, "ERROR"), result |-> FAILURE]
             ELSE [w |-> message_queue_remove_all(update_messenger_state(mv.w, "STOPPED")),
                   result |-> RESULT_OK]

amqp_messenger_stop(w, move_ok) ==
    IF w.i.state = "STOPPED" THEN [w |-> w, result |-> FAILURE]
    ELSE LET w1 == update_messenger_state(w, "STOPPING")
             w2 == destroy_message_sender(w1)
             w3 == destroy_message_receiver(w2)
             mv == message_queue_move_all_back_to_pending(w3, move_ok)
         IN  IF mv.result # RESULT_OK
             THEN [w |-> update_messenger_state(mv.w, "ERROR"), result |-> FAILURE]
             ELSE [w |-> update_messenger_state(mv.w, "STOPPED"), result |-> RESULT_OK]

\* variant: a sender that was created and opened counts as started at once
amqp_messenger_do_work_starts_at_once(w, in) ==
    LET w1 == process_state_changes(w)
    IN  IF w1.i.state = "STARTING"
        THEN IF ~w1.i.message_sender
             THEN LET cr == create_message_sender(w1, in.sender_fail, in.sender_reports)
                  IN  IF cr.result # RESULT_OK
                      THEN update_messenger_state(cr.w, "ERROR")
                      ELSE update_messenger_state(cr.w, "STARTED")
             ELSE w1
        ELSE IF w1.i.state = "STARTED"
        THEN LET w2 == IF w1.i.receive_messages /\ ~w1.i.message_receiver
                       THEN create_message_receiver(
                                w1, in.receiver_fail, in.receiver_reports).w
                       ELSE IF ~w1.i.receive_messages /\ w1.i.message_receiver
                       THEN destroy_message_receiver(w1)
                       ELSE w1
                 w3 == message_queue_do_work(w2, in.send_failures)
             IN  IF w3.i.send_error_count >= w3.i.max_send_error_count
                 THEN update_messenger_state(w3, "ERROR")
                 ELSE w3
        ELSE w1

\* in: what the environment answers during this tick
\* variant: the tick tolerates one failed send more
amqp_messenger_do_work_one_more_failure(w, in) ==
    LET w1 == process_state_changes(w)
    IN  IF w1.i.state = "STARTING"
        THEN IF ~w1.i.message_sender
             THEN LET cr == create_message_sender(w1, in.sender_fail, in.sender_reports)
                  IN  IF cr.result # RESULT_OK
                      THEN update_messenger_state(cr.w, "ERROR")
                      ELSE cr.w
             ELSE w1
        ELSE IF w1.i.state = "STARTED"
        THEN LET w2 == IF w1.i.receive_messages /\ ~w1.i.message_receiver
                       THEN create_message_receiver(
                                w1, in.receiver_fail, in.receiver_reports).w
                       ELSE IF ~w1.i.receive_messages /\ w1.i.message_receiver
                       THEN destroy_message_receiver(w1)
                       ELSE w1
                 w3 == message_queue_do_work(w2, in.send_failures)
             IN  IF w3.i.send_error_count > w3.i.max_send_error_count
                 THEN update_messenger_state(w3, "ERROR")
                 ELSE w3
        ELSE w1

\* variant: a receiver that cannot be created is an error of the messenger
amqp_messenger_do_work_hard_receiver_failure(w, in) ==
    LET w1 == process_state_changes(w)
    IN  IF w1.i.state = "STARTING"
        THEN IF ~w1.i.message_sender
             THEN LET cr == create_message_sender(w1, in.sender_fail, in.sender_reports)
                  IN  IF cr.result # RESULT_OK
                      THEN update_messenger_state(cr.w, "ERROR")
                      ELSE cr.w
             ELSE w1
        ELSE IF w1.i.state = "STARTED"
        THEN LET cr == IF w1.i.receive_messages /\ ~w1.i.message_receiver
                       THEN create_message_receiver(
                                w1, in.receiver_fail, in.receiver_reports)
                       ELSE IF ~w1.i.receive_messages /\ w1.i.message_receiver
                       THEN [w |-> destroy_message_receiver(w1), result |-> RESULT_OK]
                       ELSE [w |-> w1, result |-> RESULT_OK]
                 w3 == message_queue_do_work(cr.w, in.send_failures)
             IN  IF cr.result # RESULT_OK
                    \/ w3.i.send_error_count >= w3.i.max_send_error_count
                 THEN update_messenger_state(w3, "ERROR")
                 ELSE w3
        ELSE w1

\* variant: a sender that cannot be created leaves the messenger in Starting
amqp_messenger_do_work_soft_sender_failure(w, in) ==
    LET w1 == process_state_changes(w)
    IN  IF w1.i.state = "STARTING"
        THEN IF ~w1.i.message_sender
             THEN create_message_sender(w1, in.sender_fail, in.sender_reports).w
             ELSE w1
        ELSE IF w1.i.state = "STARTED"
        THEN LET w2 == IF w1.i.receive_messages /\ ~w1.i.message_receiver
                       THEN create_message_receiver(
                                w1, in.receiver_fail, in.receiver_reports).w
                       ELSE IF ~w1.i.receive_messages /\ w1.i.message_receiver
                       THEN destroy_message_receiver(w1)
                       ELSE w1
                 w3 == message_queue_do_work(w2, in.send_failures)
             IN  IF w3.i.send_error_count >= w3.i.max_send_error_count
                 THEN update_messenger_state(w3, "ERROR")
                 ELSE w3
        ELSE w1

\* variant: a tick of a messenger in Error without a sender tries to create it
amqp_messenger_do_work_retries_in_error(w, in) ==
    LET w1 == process_state_changes(w)
    IN  IF w1.i.state \in {"STARTING", "ERROR"}
        THEN IF ~w1.i.message_sender
             THEN LET cr == create_message_sender(w1, in.sender_fail, in.sender_reports)
                  IN  IF cr.result # RESULT_OK
                      THEN update_messenger_state(cr.w, "ERROR")
                      ELSE cr.w
             ELSE w1
        ELSE IF w1.i.state = "STARTED"
        THEN LET w2 == IF w1.i.receive_messages /\ ~w1.i.message_receiver
                       THEN create_message_receiver(
                                w1, in.receiver_fail, in.receiver_reports).w
                       ELSE IF ~w1.i.receive_messages /\ w1.i.message_receiver
                       THEN destroy_message_receiver(w1)
                       ELSE w1
                 w3 == message_queue_do_work(w2, in.send_failures)
             IN  IF w3.i.send_error_count >= w3.i.max_send_error_count
                 THEN update_messenger_state(w3, "ERROR")
                 ELSE w3
        ELSE w1

\* variant: the tick acts on the state it found, not on the state the link
\* states have just led to
amqp_messenger_do_work_on_stale_state(w, in) ==
    LET w1 == process_state_changes(w)
    IN  IF w.i.state = "STARTING"
        THEN IF ~w1.i.message_sender
             THEN LET cr == create_message_sender(w1, in.sender_fail, in.sender_reports)
                  IN  IF cr.result # RESULT_OK
                      THEN update_messenger_state(cr.w, "ERROR")
                      ELSE cr.w
             ELSE w1
        ELSE IF w.i.state = "STARTED"
        THEN LET w2 == IF w1.i.receive_messages /\ ~w1.i.message_receiver
                       THEN create_message_receiver(
                                w1, in.receiver_fail, in.receiver_reports).w
                       ELSE IF ~w1.i.receive_messages /\ w1.i.message_receiver
                       THEN destroy_message_receiver(w1)
                       ELSE w1
                 w3 == message_queue_do_work(w2, in.send_failures)
             IN  IF w3.i.send_error_count >= w3.i.max_send_error_count
                 THEN update_messenger_state(w3, "ERROR")
                 ELSE w3
        ELSE w1

\* variant: a tick of a messenger in Error whose sender is Open again
\* takes the messenger back to Started
amqp_messenger_do_work_heals(w, in) ==
    LET w0 == IF w.i.state = "ERROR" /\ w.i.message_sender
                 /\ w.i.message_sender_current_state = "OPEN"
              THEN update_messenger_state(w, "STARTED")
              ELSE w
        w1 == process_state_changes(w0)
    IN  IF w1.i.state = "STARTING"
        THEN IF ~w1.i.message_sender
             THEN LET cr == create_message_sender(w1, in.sender_fail, in.sender_reports)
                  IN  IF cr.result # RESULT_OK
                      THEN update_messenger_state(cr.w, "ERROR")
                      ELSE cr.w
             ELSE w1
        ELSE IF w1.i.state = "STARTED"
        THEN LET w2 == IF w1.i.receive_messages /\ ~w1.i.message_receiver
                       THEN create_message_receiver(
                                w1, in.receiver_fail, in.receiver_reports).w
                       ELSE IF ~w1.i.receive_messages /\ w1.i.message_receiver
                       THEN destroy_message_receiver(w1)
                       ELSE w1
                 w3 == message_queue_do_work(w2, in.send_failures)
             IN  IF w3.i.send_error_count >= w3.i.max_send_error_count
                 THEN update_messenger_state(w3, "ERROR")
                 ELSE w3
        ELSE w1

amqp_messenger_do_work(w, in) ==
    LET w1 == process_state_changes(w)
    IN  IF w1.i.state = "STARTING"
        THEN IF ~w1.i.message_sender
             THEN LET cr == create_message_sender(w1, in.sender_fail, in.sender_reports)
                  IN  IF cr.result # RESULT_OK
                      THEN update_messenger_state(cr.w, "ERROR")
                      ELSE cr.w
             ELSE w1
        ELSE IF w1.i.state = "STARTED"
        THEN LET w2 == IF w1.i.receive_messages /\ ~w1.i.message_receiver
                       THEN create_message_receiver(
                                w1, in.receiver_fail, in.receiver_reports).w
                       ELSE IF ~w1.i.receive_messages /\ w1.i.message_receiver
                       THEN destroy_message_receiver(w1)
                       ELSE w1
                 w3 == message_queue_do_work(w2, in.send_failures)
             IN  IF w3.i.send_error_count >= w3.i.max_send_error_count
                 THEN update_messenger_state(w3, "ERROR")
                 ELSE w3
        ELSE w1

\* variant: destroy stops the messenger and frees it without emptying the queue
amqp_messenger_destroy_keeps_queue(w, move_ok) ==
    IF w.i.state # "STOPPED" THEN amqp_messenger_stop(w, move_ok).w ELSE w

amqp_messenger_destroy(w, move_ok) ==
    LET w1 == IF w.i.state # "STOPPED" THEN amqp_messenger_stop(w, move_ok).w ELSE w
    IN  message_queue_destroy(w1)

\* a call that ran into undefined behaviour may also end the process
Outcomes(w) ==
    IF \E k \in 1..Len(w.g.events) : w.g.events[k].e = "undefined_behaviour"
    THEN {"created", "aborted"}
    ELSE {"created"}

\* what the observer of the failed sends knows about a restart: "stopped"
\* after a stop that took the messenger out of Error, "restarted" after the
\* start that followed, "none" again with the next stop or failed send
Restart(op, w, result) ==
    IF ~w.g.streak.counted THEN "none"
    ELSE IF w.i.send_error_count > instance.send_error_count THEN "none"
    ELSE IF op = "stop"
    THEN IF instance.state = "ERROR" /\ result = RESULT_OK THEN "stopped" ELSE "none"
    ELSE IF op = "start" /\ result = RESULT_OK /\ w.g.restart = "stopped"
    THEN "restarted"
    ELSE w.g.restart

Returns(op, arg, w, result) ==
    /\ Commit([w EXCEPT !.g.restart = Restart(op, w, result)])
    /\ last_call' = [op |-> op, arg |-> arg, result |-> result]
    /\ lifecycle' \in Outcomes(w)
    /\ UNCHANGED now

Start ==
    /\ lifecycle = "created"
    /\ \E session_handle \in Sessions :
        LET r == amqp_messenger_start(Begin(World), session_handle)
        IN  Returns("start", session_handle, r.w, r.result)

Stop ==
    /\ lifecycle = "created"
    /\ \E move_ok \in BOOLEAN :
        LET r == amqp_messenger_stop(Begin(World), move_ok)
        IN  Returns("stop", "", r.w, r.result)

\* the answers a tick can ask the environment for; an answer that the tick
\* does not ask for is left at its default
DoWorkInputsUpTo(max_errors) ==
    LET w1 == process_state_changes(World)
        creates_sender == w1.i.state = "STARTING" /\ ~w1.i.message_sender
        creates_receiver ==
            w1.i.state = "STARTED" /\ w1.i.receive_messages /\ ~w1.i.message_receiver
        pumps == w1.i.state = "STARTED"
    IN  {in \in [sender_fail : IF creates_sender THEN SenderFailSteps ELSE {"none"},
                 sender_reports : IF creates_sender
                                  THEN {<<>>, <<"OPENING">>, <<"OPENING", "IDLE">>}
                                  ELSE {<<>>},
                 receiver_fail : IF creates_receiver THEN ReceiverFailSteps ELSE {"none"},
                 receiver_reports : IF creates_receiver
                                    THEN {<<>>, <<"OPENING">>, <<"OPENING", "ERROR">>}
                                    ELSE {<<>>},
                 send_failures : IF pumps THEN SUBSET Range(send_queue.pending) ELSE {{}}] :
            /\ in.sender_reports \in SenderOpenReports(in.sender_fail)
            /\ in.receiver_reports \in ReceiverOpenReports(in.receiver_fail)
            /\ ~creates_sender => in.sender_reports = <<>>
            /\ ~creates_receiver => in.receiver_reports = <<>>
            /\ in.sender_fail = "attach_properties"
                   => instance.send_link_attach_properties
            /\ in.receiver_fail = "attach_properties"
                   => instance.receive_link_attach_properties
            /\ instance.send_error_count + Cardinality(in.send_failures)
                   <= max_errors}

DoWorkInputs == DoWorkInputsUpTo(MaxSendErrors)

DoWorkUpTo(max_errors) ==
    /\ lifecycle = "created"
    /\ \E in \in DoWorkInputsUpTo(max_errors) :
        Returns("do_work", "", amqp_messenger_do_work(Begin(World), in), RESULT_OK)

DoWork == DoWorkUpTo(MaxSendErrors)

\* free(instance): only the state the instance was freed in is kept
Freed(w) == [w EXCEPT !.i = [CreatedInstance EXCEPT !.state = w.i.state]]

Destroy ==
    /\ lifecycle = "created"
    /\ \E move_ok \in BOOLEAN :
        /\ Commit(Freed(amqp_messenger_destroy(Begin(World), move_ok)))
        /\ last_call' = [op |-> "destroy", arg |-> "", result |-> RESULT_OK]
        /\ lifecycle' = "destroyed"
        /\ UNCHANGED now

FreeSlot(id) ==
    /\ contexts[id].context \in {"none", "freed"}
    /\ id \notin uamqp.outgoing
    /\ id \notin Range(send_queue.pending) \cup Range(send_queue.in_progress)

SendAsyncIn(slots) ==
    /\ lifecycle = "created"
    /\ \E id \in slots, failure \in SendAsyncFailures :
        /\ FreeSlot(id)
        /\ \A other \in slots : FreeSlot(other) => id <= other
        /\ LET r == amqp_messenger_send_async(Begin(World), id, failure)
           IN  Returns("send_async", "", r.w, r.result)

SendAsync == SendAsyncIn(MsgIds)

Subscribe ==
    /\ lifecycle = "created"
    /\ \E callback_given \in BOOLEAN :
        LET r == amqp_messenger_subscribe_for_messages(Begin(World), callback_given)
        IN  Returns("subscribe", "", r.w, r.result)

Unsubscribe ==
    /\ lifecycle = "created"
    /\ LET r == amqp_messenger_unsubscribe_for_messages(Begin(World))
       IN  Returns("unsubscribe", "", r.w, r.result)

\* the message sender changes state inside the host's connection pump
SenderStateChangedTo(states) ==
    /\ lifecycle = "created"
    /\ instance.message_sender
    /\ \E new_state \in states :
        Returns("uamqp", "",
                messagesender_set_state(Begin(World), new_state), RESULT_OK)

SenderStateChanged == SenderStateChangedTo(MESSAGE_SENDER_STATE)

ReceiverStateChangedTo(states) ==
    /\ lifecycle = "created"
    /\ instance.message_receiver
    /\ \E new_state \in states :
        Returns("uamqp", "",
                messagereceiver_set_state(Begin(World), new_state), RESULT_OK)

ReceiverStateChanged == ReceiverStateChangedTo(MESSAGE_RECEIVER_STATE)

\* the message sender settles a delivery it was handed
SendCompleteUpTo(max_errors) ==
    /\ lifecycle = "created"
    /\ \E id \in uamqp.outgoing, send_result \in MESSAGE_SEND_RESULT :
        /\ send_result = "MESSAGE_SEND_ERROR" => instance.send_error_count < max_errors
        /\ Returns("uamqp", "",
                   on_send_complete_callback(
                       [Begin(World) EXCEPT !.t.outgoing = @ \ {id}], id, send_result),
                   RESULT_OK)

SendComplete == SendCompleteUpTo(MaxSendErrors)

\* the host lets time pass between two calls
GetSendStatus ==
    /\ lifecycle = "created"
    /\ \E send_status_given \in BOOLEAN :
        LET r == amqp_messenger_get_send_status_into(Begin(World), send_status_given)
        IN  Returns("get_send_status", r.send_status, Begin(World), r.result)

OptionNames ==
    {MESSENGER_OPTION_EVENT_SEND_TIMEOUT_SECS, MESSENGER_SAVED_MQ_OPTIONS,
     "amqp_unknown_option", NULL}

OptionValues == {SizeValue(30), SizeValue(299), NullValue}

\* the queue's answer is an input only on the path that asks the queue
SetOption ==
    /\ lifecycle = "created"
    /\ \E name \in OptionNames, value \in OptionValues :
        \E accepts \in IF name = MESSENGER_OPTION_EVENT_SEND_TIMEOUT_SECS
                           /\ value # NullValue
                        THEN BOOLEAN ELSE {TRUE} :
            LET r == amqp_messenger_set_option(
                         Log(Begin(World), "amqp_messenger_set_option",
                             name, ToString(value.n)),
                         name, value, accepts)
            IN  Returns("set_option", name, r.w, r.result)

\* the host keeps the handle it got; a NULL handle is reported as a failure
RetrieveOptions ==
    /\ lifecycle = "created"
    /\ \E failure \in RetrieveOptionsFailures :
        LET options == amqp_messenger_retrieve_options(World, failure)
        IN  Returns("retrieve_options", failure,
                    [Begin(World) EXCEPT !.g.options = options],
                    IF options = <<>> THEN FAILURE ELSE RESULT_OK)

\* the host feeds the snapshot it holds to a messenger that was just created
\* and looks at that messenger's send timeout
FeedOptions ==
    /\ lifecycle = "created"
    /\ observed.options # <<>>
    /\ LET r == OptionHandler_FeedOptions(observed.options, FreshWorld(Begin(World)))
       IN  Returns("feed_options", "",
                   Log([Begin(World) EXCEPT !.g = r.w.g],
                       "fresh_messenger", "max_message_enqueued_time_secs",
                       ToString(r.w.q.max_message_enqueued_time_secs)),
                   r.result)

AdvanceTimeTo(points) ==
    /\ lifecycle = "created"
    /\ \E t \in points \cap TimePoints :
        /\ t > now
        /\ now' = t
    /\ Commit(Begin(World))
    /\ last_call' = [op |-> "clock", arg |-> "", result |-> RESULT_OK]
    /\ UNCHANGED lifecycle

AdvanceTime == AdvanceTimeTo(TimePoints)

\* the peer delivers a message: the next delivery number, on an open receiver
MessageReceived ==
    /\ lifecycle = "created"
    /\ instance.message_receiver
    /\ uamqp.receiver_state = "OPEN"
    /\ \E d \in Deliveries, fail_step \in DispositionInfoFailSteps,
          app \in AppReceiveBehaviours :
        /\ inbound[d].handle = "none" /\ inbound[d].dispositions = <<>>
        /\ \A other \in Deliveries :
               (inbound[other].handle = "none" /\ inbound[other].dispositions = <<>>)
                   => d <= other
        /\ app.inside # "send"
               => app.inside_result = "NONE" /\ app.inside_send_ok
        /\ fail_step # "none"
               => app.inside = "nothing" /\ app.verdict = "NONE"
        /\ Returns("message_received", "",
                   on_message_received_internal_callback(Begin(World), d, fail_step, app),
                   RESULT_OK)

\* the infos the application can pass: the ones it was given and has not
\* given back, none, or one of its own making without a source
DispositionInfos ==
    {NullInfo, SourcelessInfo}
        \cup {InfoOf(d) : d \in {x \in Deliveries : inbound[x].handle = "live"}}

SendMessageDisposition ==
    /\ lifecycle = "created"
    /\ \E disposition_info \in DispositionInfos,
          disposition_result \in AMQP_MESSENGER_DISPOSITION_RESULT,
          send_ok \in BOOLEAN :
        \* what is not read on the path taken is not varied
        /\ (\/ disposition_info.kind # "delivery"
            \/ ~instance.message_receiver
            \/ disposition_result = "NONE") => send_ok
        /\ disposition_info.kind # "delivery" => disposition_result = "ACCEPTED"
        /\ LET r == amqp_messenger_send_message_disposition(
                         Log(Begin(World), "send_message_disposition",
                             disposition_info.kind, disposition_result),
                         disposition_info, disposition_result, send_ok)
           IN  Returns("send_message_disposition", "", r.w, r.result)

DestroyDispositionInfo ==
    /\ lifecycle = "created"
    /\ \E disposition_info \in DispositionInfos \ {SourcelessInfo} :
        Returns("destroy_disposition_info", "",
                amqp_messenger_destroy_disposition_info(
                    Log(Begin(World), "destroy_disposition_info",
                        disposition_info.kind, ""),
                    disposition_info),
                RESULT_OK)

(* --------------------------- specifications -------------------------- *)

\* Every operation of the messenger, with two send slots and a subscription;
\* the links report OPEN or ERROR and no time passes.
Next ==
    \/ Start
    \/ Stop
    \/ DoWork
    \/ Destroy
    \/ SendAsync
    \/ Subscribe
    \/ Unsubscribe
    \/ SenderStateChangedTo({"OPEN", "ERROR"})
    \/ ReceiverStateChangedTo({"OPEN", "ERROR"})
    \/ SendComplete

Spec == Init /\ [][Next]_vars

\* The sender link in full: every state the message sender can report, at
\* every instant of the clock; nothing is sent and nobody subscribes.
NextSender ==
    \/ Start
    \/ Stop
    \/ DoWork
    \/ Destroy
    \/ SenderStateChanged
    \/ AdvanceTime

SpecSender == Init /\ [][NextSender]_vars

\* The receiver link in full: every state the message receiver can report,
\* with and without a subscription, before and after its time limit.
NextReceiver ==
    \/ Start
    \/ Stop
    \/ DoWork
    \/ Destroy
    \/ Subscribe
    \/ Unsubscribe
    \/ SenderStateChangedTo({"OPEN", "ERROR"})
    \/ ReceiverStateChanged
    \/ AdvanceTimeTo({299, 600})

SpecReceiver == Init /\ [][NextReceiver]_vars

\* The send path in full: two send slots, completions in any order, timeouts,
\* stop, restart and destroy; the sender reports OPEN or ERROR, no receiver.
NextQueue ==
    \/ Start
    \/ Stop
    \/ DoWork
    \/ Destroy
    \/ SendAsync
    \/ SenderStateChangedTo({"OPEN", "ERROR"})
    \/ SendComplete
    \/ AdvanceTimeTo({600})

SpecQueue == Init /\ [][NextQueue]_vars

\* the host keeps calling do_work: a tick that would change something is
\* not put off for ever
SpecQueueTicking == SpecQueue /\ WF_vars(DoWork)

\* The send-failure threshold: one send slot, the sender stays OPEN, and the
\* transport fails or settles one send after the other.
NextErrors ==
    \/ Start
    \/ Stop
    \/ DoWorkUpTo(MaxCountedErrors)
    \/ SendAsyncIn({1})
    \/ SenderStateChangedTo({"OPEN"})
    \/ SendCompleteUpTo(MaxCountedErrors)

SpecErrors == InitErrors /\ [][NextErrors]_vars

\* the receive path: subscription, deliveries and their dispositions
NextReceive ==
    \/ Start
    \/ DoWork
    \/ Subscribe
    \/ Unsubscribe
    \/ SenderStateChangedTo({"OPEN"})
    \/ ReceiverStateChangedTo({"OPEN"})
    \/ MessageReceived
    \/ SendMessageDisposition
    \/ DestroyDispositionInfo

SpecReceive == Init /\ [][NextReceive]_vars

\* the options facet next to the send path the timeout governs
NextOptions ==
    \/ SetOption
    \/ RetrieveOptions
    \/ FeedOptions
    \/ Start
    \/ SenderStateChangedTo({"OPEN"})
    \/ SendAsyncIn({1})
    \/ AdvanceTimeTo({299, 600})
    \/ DoWork

SpecOptions == Init /\ [][NextOptions]_vars

\* the send path with the host asking for the send status in between
NextStatus ==
    \/ Start
    \/ Stop
    \/ DoWork
    \/ SendAsync
    \/ SenderStateChangedTo({"OPEN", "ERROR"})
    \/ SendComplete
    \/ AdvanceTimeTo({600})
    \/ GetSendStatus

SpecStatus == Init /\ [][NextStatus]_vars

\* one tick from end to end: one send slot, a subscription, both links
\* reporting OPEN or ERROR, and sends failing up to the threshold
NextTick ==
    \/ Start
    \/ Stop
    \/ DoWorkUpTo(MaxCountedErrors)
    \/ SendAsyncIn({1})
    \/ Subscribe
    \/ Unsubscribe
    \/ SenderStateChangedTo({"OPEN", "ERROR"})
    \/ ReceiverStateChangedTo({"OPEN", "ERROR"})
    \/ SendCompleteUpTo(MaxCountedErrors)

SpecTick == Init /\ [][NextTick]_vars

(* ----------------------------- properties ----------------------------- *)

Queued(q) == Range(q.pending) \cup Range(q.in_progress)

\* C1: a message that send_async accepted has its completion callback
\* invoked exactly once over the messenger's lifetime: not at all while the
\* queue still holds it, once (with one of the five send results) from the
\* moment the queue lets go of it, and at the latest when destroy returns.
C1_CompletionExactlyOnce ==
    /\ \A id \in MsgIds :
        /\ observed.completions[id] <= 1
        /\ contexts[id].context = "live"
               => /\ observed.completions[id] = 0
                  /\ id \in Queued(send_queue)
                  /\ lifecycle # "destroyed"
        /\ contexts[id].context = "freed"
               => /\ observed.completions[id] = 1
                  /\ id \notin Queued(send_queue)
    /\ \A k \in 1..Len(observed.events) :
        observed.events[k].e = "send_complete"
            => observed.events[k].b \in AMQP_MESSENGER_SEND_RESULT

\* destroy has returned; it completed the one message that was still queued
\* and every other accepted message had been completed before
C1_Witness ==
    /\ lifecycle = "destroyed"
    /\ \A id \in MsgIds :
        contexts[id].context = "freed" /\ observed.completions[id] = 1
    /\ Len(EventsOf("send_complete")) = 1
    /\ EventsOf("send_complete")[1].b = "MESSENGER_DESTROYED"

\* C2: a message that is in flight when stop is called is neither lost nor
\* completed by the stop: after the stop it is pending and its callback has
\* not fired, and whenever a tick hands a message to the message sender
\* (the first time or again after a restart) the message's clone is live.
C2_InFlightSurvivesStop ==
    [][/\ (last_call'.op = "stop" /\ last_call'.result = RESULT_OK)
           => \A id \in Range(send_queue.in_progress) :
                  /\ id \in Range(send_queue'.pending)
                  /\ observed'.completions[id] = 0
       /\ last_call'.op = "do_work"
           => \A k \in 1..Len(observed'.events) :
                  observed'.events[k].e = "messagesender_send"
                      => \E id \in MsgIds :
                             /\ observed'.events[k].a = ToString(id)
                             /\ contexts[id].message = "live"]_vars

StateChanged(old, new) == [e |-> "state_changed", a |-> old, b |-> new]

NoLinkObjects(i) ==
    /\ ~i.sender_link
    /\ ~i.message_sender
    /\ ~i.receiver_link
    /\ ~i.message_receiver

\* C3: whenever the messenger is in state Stopped, the sender link, the
\* message sender, the receiver link and the message receiver are all absent.
C3_StoppedHasNoLinkObjects ==
    instance.state = "STOPPED" => NoLinkObjects(instance)

\* a stop that found a message sender and a message receiver, destroyed both
\* and reached Stopped
C3_Witness ==
    /\ last_call = [op |-> "stop", arg |-> "", result |-> RESULT_OK]
    /\ instance.state = "STOPPED"
    /\ [e |-> "destroy_message_sender", a |-> "destroyed", b |-> ""]
           \in Range(observed.events)
    /\ [e |-> "destroy_message_receiver", a |-> "destroyed", b |-> ""]
           \in Range(observed.events)

\* C4: every notification the state observer receives carries an old state
\* and a new state that differ.
C4_NotificationsChangeState ==
    \A k \in 1..Len(observed.events) :
        observed.events[k].e = "state_changed"
            => observed.events[k].a # observed.events[k].b

\* a stop that notified the observer twice: Started to Stopping, then on
\* to Stopped
C4_Witness ==
    /\ last_call.op = "stop"
    /\ EventsOf("state_changed")
           = <<StateChanged("STARTED", "STOPPING"), StateChanged("STOPPING", "STOPPED")>>

EventNames(events) == [k \in 1..Len(events) |-> events[k].e]

\* C5: a stop called in Starting, Started or Error notifies (s, Stopping),
\* then destroys the sender, then the receiver (all four link objects end up
\* absent), then moves the in-flight messages back in front of the pending
\* ones, and last notifies (Stopping, Stopped) and returns 0 if the move
\* succeeded, or (Stopping, Error) and returns failure if it did not; it
\* notifies nothing else.
C5_StopSequence ==
    [][(last_call'.op = "stop" /\ instance.state \in {"STARTING", "STARTED", "ERROR"})
           => LET ok == last_call'.result = RESULT_OK
                  events == observed'.events
              IN  /\ EventNames(events)
                         = <<"state_changed", "destroy_message_sender",
                             "destroy_message_receiver", "move_all_back_to_pending",
                             "state_changed">>
                  /\ events[1] = StateChanged(instance.state, "STOPPING")
                  /\ events[4].a = IF ok THEN "ok" ELSE "failed"
                  /\ events[5] = StateChanged("STOPPING", IF ok THEN "STOPPED" ELSE "ERROR")
                  /\ last_call'.result \in {RESULT_OK, FAILURE}
                  /\ instance'.state = IF ok THEN "STOPPED" ELSE "ERROR"
                  /\ NoLinkObjects(instance')
                  /\ ok => /\ send_queue'.in_progress = <<>>
                            /\ send_queue'.pending
                                  = send_queue.in_progress \o send_queue.pending]_vars

\* a stop called in Error that destroyed a sender and a receiver, moved a
\* message back to pending and reached Stopped
C5_Witness ==
    /\ last_call = [op |-> "stop", arg |-> "", result |-> RESULT_OK]
    /\ observed.events[1] = StateChanged("ERROR", "STOPPING")
    /\ observed.events[2].a = "destroyed"
    /\ observed.events[3].a = "destroyed"
    /\ send_queue.pending # <<>>
    /\ uamqp.outgoing = {}
    /\ \E id \in Range(send_queue.pending) : contexts[id].is_destroyed

\* C6: start called in a state other than Stopped or with a null session,
\* and stop called in Stopped, return a non-zero result, change nothing in
\* the messenger, its queue or its links, and notify nobody.
C6_RejectedCallsChangeNothing ==
    [][(\/ /\ last_call'.op = "start"
            /\ (instance.state # "STOPPED" \/ last_call'.arg = NULL)
        \/ /\ last_call'.op = "stop"
            /\ instance.state = "STOPPED")
           => /\ last_call'.result # RESULT_OK
              /\ instance' = instance
              /\ send_queue' = send_queue
              /\ contexts' = contexts
              /\ uamqp' = uamqp
              /\ observed'.events = <<>>]_vars

\* a start with a null session was rejected while the messenger was running
\* with a session, a message in flight and one pending
C6_Witness ==
    /\ last_call = [op |-> "start", arg |-> NULL, result |-> FAILURE]
    /\ instance.state = "STARTED"
    /\ instance.session_handle # NULL
    /\ send_queue.in_progress # <<>>
    /\ send_queue.pending # <<>>

StateChanges(events) == SelectSeq(events, LAMBDA x : x.e = "state_changed")

\* seconds since the last state change the sender reported
SenderElapsed == now - instance.last_message_sender_state_change_time

SenderTimed == instance.last_message_sender_state_change_time # INDEFINITE_TIME

\* seconds since the last state change the receiver reported
ReceiverElapsed == now - instance.last_message_receiver_state_change_time

ReceiverTimed == instance.last_message_receiver_state_change_time # INDEFINITE_TIME

\* C7: the start-up sequence. A successful start notifies exactly
\* (Stopped, Starting); the tick that finds no sender (mirrored Idle) and
\* creates and opens it notifies nothing; a tick that finds the sender
\* Opening within its time limit notifies nothing; the tick that finds the
\* sender Open notifies exactly (Starting, Started).
C7_StartupNotifications ==
    [][/\ (last_call'.op = "start" /\ last_call'.result = RESULT_OK)
           => observed'.events = <<StateChanged("STOPPED", "STARTING")>>
       /\ (last_call'.op = "do_work" /\ instance.state = "STARTING")
           => /\ (/\ ~instance.message_sender
                  /\ instance.message_sender_current_state = "IDLE"
                  /\ observed'.events[1].a = "ok")
                  => /\ EventNames(observed'.events) = <<"create_message_sender">>
                     /\ instance'.message_sender /\ instance'.sender_link
                     /\ instance'.state = "STARTING"
              /\ (/\ instance.message_sender_current_state = "OPENING"
                  /\ SenderTimed /\ SenderElapsed < 300)
                  => /\ StateChanges(observed'.events) = <<>>
                     /\ instance'.state = "STARTING"
              /\ instance.message_sender_current_state = "OPEN"
                  => /\ StateChanges(observed'.events)
                            = <<StateChanged("STARTING", "STARTED")>>
                     /\ instance'.state = "STARTED"]_vars

\* the tick that found the sender Open after it had reported Opening, and
\* told the observer (Starting, Started) and nothing else
C7_Witness ==
    /\ last_call.op = "do_work"
    /\ instance.state = "STARTED"
    /\ observed.events = <<StateChanged("STARTING", "STARTED")>>
    /\ instance.message_sender_previous_state = "OPENING"
    /\ instance.message_sender_current_state = "OPEN"

C9_StartedPolicy ==
    [][(last_call'.op = "do_work" /\ instance.state = "STARTED")
           => LET snd == instance.message_sender_current_state
                  rcv == instance.message_receiver_current_state
                  has == instance.message_receiver
              IN  /\ (\/ snd # "OPEN"
                      \/ (has /\ rcv \in {"ERROR", "IDLE"})
                      \/ (has /\ rcv = "OPENING" /\ ReceiverTimed /\ ReceiverElapsed > 300))
                      => /\ observed'.events = <<StateChanged("STARTED", "ERROR")>>
                         /\ instance'.state = "ERROR"
                  /\ (/\ snd = "OPEN"
                      /\ \/ ~has
                         \/ rcv = "OPEN"
                         \/ (rcv = "OPENING" /\ ReceiverTimed /\ ReceiverElapsed < 300))
                      => \/ /\ instance'.state = "STARTED"
                            /\ StateChanges(observed'.events) = <<>>
                         \/ instance'.send_error_count >= instance'.max_send_error_count]_vars

\* a tick entered in Started with the sender Open found the receiver still
\* Opening after more than 300 s and moved to Error
C9_Witness ==
    /\ last_call.op = "do_work"
    /\ instance.state = "ERROR"
    /\ observed.events = <<StateChanged("STARTED", "ERROR")>>
    /\ instance.message_sender_current_state = "OPEN"
    /\ instance.message_receiver
    /\ instance.message_receiver_current_state = "OPENING"
    /\ ReceiverTimed /\ ReceiverElapsed > 300

\* C10: in Starting with the sender mirrored as Opening, a tick 299 s after
\* the last sender state change leaves the messenger in Starting and a tick
\* 301 s after it moves the messenger to Error, whenever start was called.
C10_OpeningTimeout ==
    [][(/\ last_call'.op = "do_work"
        /\ instance.state = "STARTING"
        /\ instance.message_sender_current_state = "OPENING"
        /\ SenderTimed)
           => /\ SenderElapsed = 299
                  => /\ instance'.state = "STARTING"
                     /\ StateChanges(observed'.events) = <<>>
              /\ SenderElapsed = 301
                  => /\ instance'.state = "ERROR"
                     /\ observed'.events = <<StateChanged("STARTING", "ERROR")>>]_vars

\* a tick at 899 s left the messenger in Starting: the sender has been
\* Opening since 600 s, 299 s before the tick
C10_Witness ==
    /\ last_call.op = "do_work"
    /\ instance.state = "STARTING"
    /\ instance.message_sender_current_state = "OPENING"
    /\ instance.last_message_sender_state_change_time = 600
    /\ now = 899

\* a tick of a started messenger whose links give no reason to leave Started
SteadyTick ==
    /\ last_call'.op = "do_work"
    /\ instance.state = "STARTED"
    /\ instance.message_sender_current_state = "OPEN"
    /\ ~instance.message_receiver
    /\ ~instance.receive_messages

Routed(result, state) ==
    IF result = "SUCCESS" THEN "OK"
    ELSE IF result = "TIMEOUT" THEN "ERROR_TIMEOUT"
    ELSE IF result = "CANCELLED" /\ state = "STOPPED" THEN "MESSENGER_DESTROYED"
    ELSE "ERROR_FAIL_SENDING"

FailedSends(events) ==
    Len(SelectSeq(events, LAMBDA x : x.e = "send_complete" /\ x.b = "ERROR_FAIL_SENDING"))

\* C12: every completion handed to a user callback carries the result the
\* routing table gives for the queue result and the messenger state at that
\* moment (Success: OK; Timeout: ErrorTimeout; Cancelled while Stopped:
\* MessengerDestroyed; anything else: ErrorFailSending), and a call raises
\* send_error_count by exactly the number of ErrorFailSending it delivered.
C12_CompletionRouting ==
    [][/\ \A k \in 1..Len(observed'.events) :
            observed'.events[k].e = "send_complete"
                => /\ k > 1
                   /\ observed'.events[k - 1].e = "processing_completed"
                   /\ observed'.events[k].b
                          = Routed(observed'.events[k - 1].a, observed'.events[k - 1].b)
       /\ last_call'.op # "destroy"
            => instance'.send_error_count
                   = instance.send_error_count + FailedSends(observed'.events)]_vars

\* a destroy whose stop failed cancelled a message while the messenger was in
\* Error: the callback got ErrorFailSending
C12_Witness ==
    /\ last_call.op = "destroy"
    /\ \E k \in 2..Len(observed.events) :
           /\ observed.events[k - 1]
                  = [e |-> "processing_completed", a |-> "CANCELLED", b |-> "ERROR"]
           /\ observed.events[k].e = "send_complete"
           /\ observed.events[k].b = "ERROR_FAIL_SENDING"

\* the results a call delivered to the callback of message id, in order
Delivered(events, id) ==
    LET mine == SelectSeq(events, LAMBDA x : x.e = "send_complete" /\ x.a = ToString(id))
    IN  [k \in 1..Len(mine) |-> mine[k].b]

\* C13: a destroy, in whatever state the messenger is, fires the callback of
\* every message still queued (pending or in flight) exactly once, with
\* MessengerDestroyed, before it returns.
C13_DestroyCompletesQueued ==
    [][last_call'.op = "destroy"
           => \A id \in Queued(send_queue) :
                  /\ observed.completions[id] = 0
                  /\ observed'.completions[id] = 1
                  /\ Delivered(observed'.events, id) = <<"MESSENGER_DESTROYED">>]_vars

Presented(events) ==
    SelectSeq(events, LAMBDA x : x.e = "messagesender_send")

\* the uncompleted messages in the order their send_async calls succeeded,
\* as strings
AcceptedNames == [k \in 1..Len(observed.accepted) |-> ToString(observed.accepted[k])]

\* C15: the queue keeps the uncompleted messages in the order their
\* send_async calls succeeded, the in-flight ones ahead of the pending ones;
\* a tick hands messages to the message sender in that order; a successful
\* stop puts the in-flight messages back at the head of pending, so that
\* pending is again the order of acceptance of all uncompleted messages.
C15_FifoHandOver ==
    [][/\ send_queue'.in_progress \o send_queue'.pending = observed'.accepted
       /\ last_call'.op = "do_work"
           => LET presented == Presented(observed'.events)
              IN  [k \in 1..Len(presented) |-> presented[k].a]
                      = SelectSeq(AcceptedNames,
                                  LAMBDA n : \E k \in 1..Len(presented) :
                                                 presented[k].a = n)
       /\ (last_call'.op = "stop" /\ last_call'.result = RESULT_OK)
           => /\ send_queue'.in_progress = <<>>
              /\ send_queue'.pending = observed.accepted
              /\ observed'.accepted = observed.accepted]_vars

\* a stop put a message that was in flight back ahead of one that was
\* accepted after it and was still pending; the slot numbers are in the
\* other order
C15_Witness ==
    /\ last_call = [op |-> "stop", arg |-> "", result |-> RESULT_OK]
    /\ send_queue.pending = <<2, 1>>
    /\ observed.accepted = <<2, 1>>
    /\ contexts[2].is_destroyed
    /\ ~contexts[1].is_destroyed

\* the dispositions a call gave the peer for delivery d, in order
Emitted(events, d) ==
    LET mine == SelectSeq(events, LAMBDA x : x.e = "disposition" /\ x.a = ToString(d))
    IN  [k \in 1..Len(mine) |-> mine[k].b]

\* C16: the peer gets at most one disposition for a delivery, whether it
\* comes from the verdict the callback returned or from a call of
\* amqp_messenger_send_message_disposition with the delivery's info.
C16_AtMostOneDisposition ==
    \A d \in Deliveries : Len(inbound[d].dispositions) <= 1

\* the kind of info the application passed to
\* amqp_messenger_send_message_disposition
SentInfoKind(events) == events[1].a

\* C17: amqp_messenger_send_message_disposition consumes the info only when
\* it succeeds. When it returns 0 the disposition was handed to the receiver
\* once, the peer got it and exactly one info, which was live, has been
\* freed; when it fails nothing is freed, and if the message receiver is
\* absent the peer gets nothing.
C17_ConsumedOnlyOnSuccess ==
    [][last_call'.op = "send_message_disposition"
           => LET events == observed'.events
                  frees == SelectSeq(events, LAMBDA x : x.e = "free_disposition_info")
                  sends == SelectSeq(events, LAMBDA x :
                               x.e = "messagereceiver_send_message_disposition")
                  emitted == SelectSeq(events, LAMBDA x : x.e = "disposition")
              IN  /\ SelectSeq(events, LAMBDA x : x.e = "undefined_behaviour") = <<>>
                  /\ last_call'.result = RESULT_OK
                         => /\ SentInfoKind(events) = "delivery"
                            /\ instance.message_receiver
                            /\ Len(sends) = 1 /\ sends[1].b = "ok"
                            /\ Len(emitted) = 1
                            /\ Len(frees) = 1
                            /\ \E d \in Deliveries :
                                   /\ frees[1].a = ToString(d)
                                   /\ emitted[1].a = ToString(d)
                                   /\ inbound[d].handle = "live"
                                   /\ inbound'[d].handle = "freed"
                                   /\ \A other \in Deliveries \ {d} :
                                          inbound'[other] = inbound[other]
                  /\ last_call'.result # RESULT_OK
                         => /\ frees = <<>>
                            /\ \A d \in Deliveries :
                                   inbound'[d].handle = inbound[d].handle
                            /\ ~instance.message_receiver
                                   => emitted = <<>> /\ sends = <<>> /\ inbound' = inbound]_vars

\* a disposition was sent with the info of a delivery after the receiver had
\* been torn down: the call failed and the info is still live
C17_Witness ==
    /\ last_call = [op |-> "send_message_disposition", arg |-> "", result |-> FAILURE]
    /\ observed.events = <<[e |-> "send_message_disposition", a |-> "delivery",
                            b |-> "ACCEPTED"]>>
    /\ ~instance.message_receiver
    /\ inbound[1].handle = "live"
    /\ inbound[1].dispositions = <<>>

\* what the peer is to get for a verdict of the receive callback
Translated(verdict) ==
    IF verdict = "ACCEPTED" THEN <<"accepted">>
    ELSE IF verdict = "RELEASED" THEN <<"released">>
    ELSE IF verdict = "REJECTED"
    THEN <<"rejected(Rejected by application, Rejected by application)">>
    ELSE <<>>

\* C18: when a message is delivered to the application's receive callback,
\* the delivery number and the link name have been read from the receiver
\* before the callback is called and are the ones in the info, and the
\* verdict the callback returns is passed to the peer after it as: None,
\* nothing; Accepted, accepted; Released, released; Rejected, rejected with
\* condition and description "Rejected by application".
C18_VerdictTranslation ==
    [][last_call'.op = "message_received"
           => \A k \in 1..Len(observed'.events) :
                  observed'.events[k].e = "on_message_received_callback"
                      => LET events == observed'.events
                             d == CHOOSE x \in Deliveries : ToString(x) = events[k].a
                         IN  /\ k > 2
                             /\ events[1] = [e |-> "messagereceiver_get_received_message_id",
                                             a |-> ToString(d), b |-> "ok"]
                             /\ events[2] = [e |-> "messagereceiver_get_link_name",
                                             a |-> ToString(d), b |-> "ok"]
                             /\ inbound[d].handle = "none"
                             /\ inbound'[d].message_id = d
                             /\ inbound'[d].source = "link_name"
                             /\ Emitted(SubSeq(events, k + 1, Len(events)), d)
                                    = Translated(events[k].b)]_vars

\* the callback did nothing with the info and returned Rejected: the peer
\* got the rejection, with both texts
C18_Witness ==
    /\ last_call.op = "message_received"
    /\ Len(observed.events) = 4
    /\ observed.events[3]
           = [e |-> "on_message_received_callback", a |-> "1", b |-> "REJECTED"]
    /\ inbound[1].dispositions
           = <<"rejected(Rejected by application, Rejected by application)">>
    /\ inbound[1].message_id = 1
    /\ inbound[1].source = "link_name"

\* C19: amqp_messenger_send_message_disposition called with the verdict None
\* returns non-zero, gives the peer nothing and frees nothing, also when the
\* message receiver is there.
C19_NoneIsNotSent ==
    [][(/\ last_call'.op = "send_message_disposition"
        /\ observed'.events[1].b = "NONE")
           => /\ last_call'.result # RESULT_OK
              /\ Len(observed'.events) = 1
              /\ inbound' = inbound]_vars

\* the verdict None was sent with the live info of a delivery while the
\* receiver was open: the call failed and the info is still live
C19_Witness ==
    /\ last_call = [op |-> "send_message_disposition", arg |-> "", result |-> FAILURE]
    /\ observed.events = <<[e |-> "send_message_disposition", a |-> "delivery",
                            b |-> "NONE"]>>
    /\ instance.message_receiver
    /\ uamqp.receiver_state = "OPEN"
    /\ inbound[1].handle = "live"

\* C20: when the receive callback returns Accepted for a message and does
\* nothing else with the info, the peer gets exactly one disposition for the
\* delivery, accepted, and the info made for the message has been freed when
\* the delivery is over.
C20_AcceptedConsumesInfo ==
    [][last_call'.op = "message_received"
           => \A d \in Deliveries :
                  (/\ [e |-> "on_message_received_callback", a |-> ToString(d),
                       b |-> "ACCEPTED"] \in Range(observed'.events)
                   /\ \A k \in 1..Len(observed'.events) :
                          observed'.events[k].e
                              \notin {"app_send_message_disposition",
                                       "app_destroy_disposition_info"})
                      => /\ inbound'[d].dispositions = <<"accepted">>
                         /\ inbound'[d].handle = "freed"]_vars

\* C21: the first tick after a successful unsubscribe that found a message
\* receiver leaves neither message_receiver nor receiver_link, in whatever
\* state the messenger is.
C21_UnsubscribeTearsDown ==
    [][(/\ last_call = [op |-> "unsubscribe", arg |-> "", result |-> RESULT_OK]
        /\ instance.message_receiver
        /\ last_call'.op = "do_work")
           => /\ ~instance'.message_receiver
              /\ ~instance'.receiver_link]_vars

\* C22: whenever a call has returned, sender_link is there exactly when
\* message_sender is, and receiver_link exactly when message_receiver is,
\* also after a tick in which the creation of a link failed at some step.
C22_LinksPairUp ==
    /\ instance.sender_link <=> instance.message_sender
    /\ instance.receiver_link <=> instance.message_receiver

\* a tick of a started messenger has failed to create the receiver: the
\* sender and its link are there, the receiver and its link are not
C22_Witness ==
    /\ last_call.op = "do_work"
    /\ [e |-> "create_message_receiver", a |-> "failed", b |-> ""]
           \in Range(observed.events)
    /\ instance.sender_link /\ instance.message_sender
    /\ ~instance.receiver_link /\ ~instance.message_receiver

\* message id is queued and has been so for the send timeout or longer
Aged(id) ==
    /\ lifecycle = "created"
    /\ id \in Queued(send_queue)
    /\ send_queue.max_message_enqueued_time_secs > 0
    /\ now - send_queue.enqueue_time[id] >= send_queue.max_message_enqueued_time_secs

\* the last call fired the callback of message id with result
Completed(id, result) ==
    [e |-> "send_complete", a |-> ToString(id), b |-> result] \in Range(observed.events)

\* C23: while do_work keeps being called, a queued message that has reached
\* the send timeout gets its callback fired with ErrorTimeout, in whatever
\* state the messenger is, unless the transport completes it or the
\* messenger is destroyed first.
C23_AgedMessagesTimeOut ==
    \A id \in MsgIds :
        Aged(id) ~> (\/ Completed(id, "ERROR_TIMEOUT")
                     \/ (last_call.op = "uamqp" /\ id \notin Queued(send_queue))
                     \/ lifecycle # "created")

\* the queue took the value the call handed to it
QueueAccepted(events) ==
    /\ Len(events) = 2
    /\ events[2].e = "message_queue_set_max_message_enqueued_time_secs"
    /\ events[2].b = "ok"

\* C24: set_option with the name amqp_event_send_timeout_secs and a value the
\* queue accepts stores the value as the send queue's max enqueued time and
\* returns 0; with any other name it returns non-zero and the queue's timeout
\* stays as it was.
C24_SetOptionWritesThrough ==
    [][last_call'.op = "set_option"
          => /\ (/\ last_call'.arg = MESSENGER_OPTION_EVENT_SEND_TIMEOUT_SECS
                 /\ QueueAccepted(observed'.events))
                    => /\ last_call'.result = 0
                       /\ ToString(send_queue'.max_message_enqueued_time_secs)
                              = observed'.events[1].b
             /\ last_call'.arg # MESSENGER_OPTION_EVENT_SEND_TIMEOUT_SECS
                    => /\ last_call'.result # 0
                       /\ send_queue'.max_message_enqueued_time_secs
                              = send_queue.max_message_enqueued_time_secs]_vars

\* the send timeout the freshly created messenger ended up with
FreshTimeout(events) == events[Len(events)].b

\* C25: the snapshot amqp_messenger_retrieve_options returns for a messenger,
\* fed to a freshly created messenger through the snapshot's setter, is taken
\* without an error and leaves the fresh messenger's send timeout equal to
\* the timeout of the messenger the snapshot was taken from.
C25_OptionsRoundTrip ==
    [][(/\ last_call.op = "retrieve_options"
        /\ last_call'.op = "feed_options")
          => /\ last_call'.result = 0
             /\ FreshTimeout(observed'.events)
                    = ToString(send_queue.max_message_enqueued_time_secs)]_vars

\* C26: get_send_status answers IDLE exactly when the send queue has neither
\* pending nor in-flight items and BUSY otherwise; as long as an accepted
\* message waits for its completion callback the answer is BUSY, whatever
\* the state of the messenger.
C26_SendStatus ==
    [][(last_call'.op = "get_send_status" /\ last_call'.result = 0)
          => /\ last_call'.arg \in {"IDLE", "BUSY"}
             /\ last_call'.arg = "IDLE"
                    <=> (send_queue'.pending = <<>> /\ send_queue'.in_progress = <<>>)
             /\ observed'.accepted # <<>> => last_call'.arg = "BUSY"]_vars

\* in the Error state, with one message handed to the transport and none
\* pending, the answer was BUSY
C26_Witness ==
    /\ last_call = [op |-> "get_send_status", arg |-> "BUSY", result |-> RESULT_OK]
    /\ instance.state = "ERROR"
    /\ send_queue.pending = <<>>
    /\ send_queue.in_progress # <<>>

\* C27: a messenger that was in Error, was stopped and started again, and
\* whose sender has reported Open is Started at the end of every tick, as
\* long as the sender stays Open and no send has failed since the stop.
C27_RestartRecovers ==
    [][(/\ last_call'.op = "do_work"
        /\ observed.restart = "restarted"
        /\ observed'.restart = "restarted"
        /\ instance.state \in {"STARTING", "STARTED"}
        /\ instance.message_sender
        /\ instance.message_sender_current_state = "OPEN")
          => instance'.state = "STARTED"]_vars

ReceiverAttempts(events) == SelectSeq(events, LAMBDA x : x.e = "create_message_receiver")

FailedReceiver == [e |-> "create_message_receiver", a |-> "failed", b |-> ""]

\* the messenger state at the moment the k-th event of a call was logged
StateAt(events, k, before) ==
    LET changes == StateChanges(SubSeq(events, 1, k - 1))
    IN  IF changes = <<>> THEN before ELSE changes[Len(changes)].b

\* C28: the receiver is created lazily and its failure is soft: only a tick
\* that is in Started with receive_messages set and no receiver attempts to
\* create it; when the attempt fails the messenger is still Started at the
\* end of the tick, the observer is told nothing, neither receiver_link nor
\* message_receiver is left, and the next tick attempts the creation again.
C28_LazySoftReceiver ==
    [][/\ (instance'.message_receiver /\ ~instance.message_receiver)
              => ReceiverAttempts(observed'.events)
                     = <<[e |-> "create_message_receiver", a |-> "ok", b |-> ""]>>
       /\ ReceiverAttempts(observed'.events) # <<>>
              => /\ last_call'.op = "do_work"
                 /\ Len(ReceiverAttempts(observed'.events)) = 1
                 /\ instance.receive_messages
                 /\ ~instance.message_receiver
                 /\ \E k \in 1..Len(observed'.events) :
                        /\ observed'.events[k].e = "create_message_receiver"
                        /\ StateAt(observed'.events, k, instance.state) = "STARTED"
       /\ FailedReceiver \in Range(observed'.events)
              => /\ instance'.state = "STARTED"
                 /\ \A k \in 1..Len(observed'.events) :
                        k > IndexOf(observed'.events, FailedReceiver)
                            => observed'.events[k].e # "state_changed"
                 /\ ~instance'.receiver_link
                 /\ ~instance'.message_receiver
       /\ (/\ last_call.op = "do_work"
           /\ FailedReceiver \in Range(observed.events)
           /\ last_call'.op = "do_work")
              => ReceiverAttempts(observed'.events) # <<>>]_vars

\* a tick of a started messenger has failed to open the receiver after the
\* receiver had reported an error: the messenger is still Started, still
\* subscribed, and has no receiver
C28_Witness ==
    /\ last_call.op = "do_work"
    /\ ReceiverAttempts(observed.events) = <<FailedReceiver>>
    /\ instance.state = "STARTED"
    /\ instance.receive_messages
    /\ instance.message_receiver_current_state = "ERROR"
    /\ ~instance.message_receiver
    /\ ~instance.receiver_link

FailedSender == [e |-> "create_message_sender", a |-> "failed", b |-> ""]

\* C29: when the creation of the sender fails, at whatever step, in a tick of
\* a starting messenger, that same tick moves the messenger to Error, the
\* observer is told (Starting, Error) and nothing else, and neither
\* sender_link nor message_sender is left.
C29_SenderFailureIsAnError ==
    [][(FailedSender \in Range(observed'.events))
          => /\ last_call'.op = "do_work"
             /\ instance.state = "STARTING"
             /\ instance'.state = "ERROR"
             /\ StateChanges(observed'.events) = <<StateChanged("STARTING", "ERROR")>>
             /\ ~instance'.sender_link
             /\ ~instance'.message_sender]_vars

\* messagesender_open has failed after the sender had reported OPENING: the
\* tick has ended in Error without a sender
C29_Witness ==
    /\ last_call.op = "do_work"
    /\ FailedSender \in Range(observed.events)
    /\ instance.state = "ERROR"
    /\ instance.message_sender_previous_state = "OPENING"
    /\ ~instance.sender_link
    /\ ~instance.message_sender

SenderAttempts(events) == SelectSeq(events, LAMBDA x : x.e = "create_message_sender")

LinkEvent(x) ==
    x.e \in {"create_message_sender", "create_message_receiver",
             "destroy_message_sender", "destroy_message_receiver"}

QueueEvent(x) ==
    x.e \in {"messagesender_send", "processing_completed", "send_complete"}

\* the events of a tick come in the order: state changes out of the link
\* states, link creation and destruction (with the Error a sender that
\* cannot be created ends in), the queue, the threshold
InTickOrder(events) ==
    \A j, k \in 1..Len(events) :
        j < k => /\ ~(QueueEvent(events[j]) /\ LinkEvent(events[k]))
                 /\ ((LinkEvent(events[j]) \/ QueueEvent(events[j]))
                        /\ events[k].e = "state_changed")
                       => /\ k = Len(events)
                          /\ \/ events[k] = StateChanged("STARTED", "ERROR")
                             \/ /\ events[k] = StateChanged("STARTING", "ERROR")
                                /\ events[k - 1] = FailedSender

PresentedIds(events) == [k \in 1..Len(Presented(events)) |-> Presented(events)[k].a]

\* C31: a tick first processes the link states it has observed, then creates
\* or destroys links for the resulting state, then pumps the send queue, then
\* evaluates the send-failure threshold. So the tick that moves Starting to
\* Started creates the receiver (if subscribed) and presents the pending
\* messages in that same tick, and a tick that moves Started to Error
\* because of a link anomaly creates or destroys no receiver and presents
\* no message.
C31_TickOrder ==
    [][last_call'.op = "do_work"
          => /\ InTickOrder(observed'.events)
             /\ (/\ observed'.events # <<>>
                 /\ observed'.events[1] = StateChanged("STARTING", "STARTED"))
                    => /\ instance.receive_messages
                           => Len(ReceiverAttempts(observed'.events)) = 1
                       /\ PresentedIds(observed'.events)
                              = [k \in 1..Len(send_queue.pending)
                                    |-> ToString(send_queue.pending[k])]
                       /\ instance'.send_error_count >= DEFAULT_MAX_SEND_ERROR_COUNT
                              <=> instance'.state = "ERROR"
             /\ (/\ observed'.events # <<>>
                 /\ observed'.events[1] = StateChanged("STARTED", "ERROR"))
                    => /\ observed'.events = <<StateChanged("STARTED", "ERROR")>>
                       /\ instance'.message_receiver = instance.message_receiver
                       /\ send_queue' = send_queue]_vars

\* the tick that moved Starting to Started has created the receiver,
\* presented the pending message, seen it fail for the tenth time and moved
\* on to Error
C31_Witness ==
    /\ last_call.op = "do_work"
    /\ Len(observed.events) > 3
    /\ observed.events[1] = StateChanged("STARTING", "STARTED")
    /\ observed.events[2] = [e |-> "create_message_receiver", a |-> "ok", b |-> ""]
    /\ observed.events[3] = [e |-> "messagesender_send", a |-> "1", b |-> "failed"]
    /\ observed.events[Len(observed.events)] = StateChanged("STARTED", "ERROR")
    /\ instance.message_receiver

\* the application's receive callback ran during the call
AppCalled(events) ==
    \E k \in 1..Len(events) : events[k].e = "on_message_received_callback"

\* C32: when the disposition info of an inbound message cannot be created
\* (the delivery number or the link name cannot be read, the name cannot be
\* copied, or there is no memory), the application's receive callback is not
\* called for that message and the peer is answered Released.
C32_NoInfoMeansReleased ==
    [][last_call'.op = "message_received"
          => \A d \in Deliveries :
                 (inbound'[d] # inbound[d] /\ inbound'[d].handle = "none")
                     => /\ ~AppCalled(observed'.events)
                        /\ inbound'[d].dispositions = <<"released">>
                        /\ observed'.events[Len(observed'.events)]
                               = [e |-> "disposition", a |-> ToString(d), b |-> "released"]]_vars

\* the link name could not be read for delivery 1: no info, no call of the
\* application, Released to the peer
C32_Witness ==
    /\ last_call.op = "message_received"
    /\ observed.events
           = <<[e |-> "messagereceiver_get_received_message_id", a |-> "1", b |-> "ok"],
               [e |-> "messagereceiver_get_link_name", a |-> "1", b |-> "failed"],
               [e |-> "disposition", a |-> "1", b |-> "released"]>>
    /\ inbound[1].handle = "none"
    /\ inbound[1].dispositions = <<"released">>

\* C33: send_error_count is the number of completions handed to user
\* callbacks as ErrorFailSending since the messenger was created: it starts
\* at 0, every call adds exactly the ErrorFailSending completions it
\* delivered, and nothing (a successful send, a timeout, stop, start,
\* do_work) takes anything away.
C33_ErrorCountIsATotal ==
    [][/\ last_call.op = "create" => instance.send_error_count = 0
       /\ last_call'.op # "destroy"
              => instance'.send_error_count
                     = instance.send_error_count + FailedSends(observed'.events)]_vars

\* with one failed send counted, a later send has succeeded and the count
\* is still one
C33_Witness ==
    /\ instance.send_error_count = 1
    /\ observed.events # <<>>
    /\ observed.events[Len(observed.events)].e = "send_complete"
    /\ observed.events[Len(observed.events)].b = "OK"
    /\ last_call.op = "uamqp"

\* the state changes an operation may make
AllowedChanges(op) ==
    IF op = "start" THEN {StateChanged("STOPPED", "STARTING")}
    ELSE IF op = "do_work"
    THEN {StateChanged("STARTING", "STARTED"), StateChanged("STARTING", "ERROR"),
          StateChanged("STARTED", "ERROR")}
    ELSE IF op \in {"stop", "destroy"}
    THEN {StateChanged("STARTING", "STOPPING"), StateChanged("STARTED", "STOPPING"),
          StateChanged("ERROR", "STOPPING"), StateChanged("STOPPING", "STOPPED"),
          StateChanged("STOPPING", "ERROR")}
    ELSE {}

\* C34: the messenger only ever moves Stopped to Starting (start), Starting
\* to Started, Starting to Error and Started to Error (do_work), Starting,
\* Started or Error to Stopping and Stopping to Stopped or Error (stop and
\* destroy); a tick leaves a Stopped or Error messenger as it is, and Error
\* is left only through stop or destroy.
C34_OnlyTheseTransitions ==
    [][/\ Range(StateChanges(observed'.events)) \subseteq AllowedChanges(last_call'.op)
       /\ instance'.state # instance.state => StateChanges(observed'.events) # <<>>
       /\ (last_call'.op = "do_work" /\ instance.state \in {"STOPPED", "ERROR"})
              => instance'.state = instance.state
       /\ (instance.state = "ERROR" /\ instance'.state # "ERROR")
              => last_call'.op \in {"stop", "destroy"}]_vars

\* a tick has found the messenger in Error with the sender Open and the
\* receiver gone bad, and has left it in Error
C34_Witness ==
    /\ last_call.op = "do_work"
    /\ observed.events = <<>>
    /\ instance.state = "ERROR"
    /\ instance.message_sender_current_state = "OPEN"
    /\ instance.message_receiver
    /\ instance.message_receiver_current_state = "ERROR"

\* the notifications of one call continue the chain: the first starts at
\* the state the call found, each starts where the one before ended, and
\* the last ends at the state the call leaves
ContinuesChain(changes, before, after) ==
    IF changes = <<>> THEN after = before
    ELSE /\ changes[1].a = before
         /\ \A k \in 2..Len(changes) : changes[k].a = changes[k - 1].b
         /\ changes[Len(changes)].b = after

\* C35: the observer's notifications form an unbroken chain: the first one
\* has Stopped as its previous state, every later one has as its previous
\* state the new state of the one before it, and the state of the messenger
\* is the new state of the last one.
C35_UnbrokenChain ==
    [][/\ last_call.op = "create" => instance.state = "STOPPED"
       /\ ContinuesChain(StateChanges(observed'.events),
                         instance.state, instance'.state)]_vars

\* a stop of a started messenger whose queue could not be rearranged: two
\* notifications, the second starting where the first ended, the messenger
\* in Error
C35_Witness ==
    /\ last_call.op = "stop"
    /\ last_call.result # RESULT_OK
    /\ StateChanges(observed.events)
           = <<StateChanged("STARTED", "STOPPING"), StateChanged("STOPPING", "ERROR")>>
    /\ instance.state = "ERROR"

\* C36: on every path the cloned message of a send is destroyed exactly once
\* and its send context is neither read nor written after it was released:
\* no call destroys a message that is already destroyed, hands such a
\* message to the transport, or touches a freed context. This includes a
\* messagesender_send that fails inside on_process_message_callback and an
\* item that completes before it was ever presented.
C36_SendMemoryIsSafe ==
    /\ \A k \in 1..Len(observed.events) : observed.events[k].e # "undefined_behaviour"
    /\ \A id \in MsgIds :
           contexts[id].context = "freed" => contexts[id].message = "destroyed"

\* C37: whenever the receiver hands over a message, an application receive
\* callback is installed: on_message_received_internal_callback never runs
\* while on_message_received_callback is null, not between an unsubscribe
\* and the tick that tears the receiver down, and not while the messenger
\* is in Error with the receiver still there.
C37_CallbackIsInstalled ==
    [][last_call'.op = "message_received"
          => /\ instance.on_message_received_callback
             /\ \A k \in 1..Len(observed'.events) :
                    observed'.events[k].e # "undefined_behaviour"]_vars

(* C38: whenever message_sender is absent at an operation boundary, the    *)
(* mirrored sender current and previous states are Idle and the time of    *)
(* its last change is unset, and likewise for the receiver, also after     *)
(* messagesender_open or messagereceiver_open failed during creation.      *)
C38_AbsentLinkMirrorsIdle ==
    lifecycle = "created"
        => /\ ~instance.message_sender
                  => /\ instance.message_sender_current_state = "IDLE"
                     /\ instance.message_sender_previous_state = "IDLE"
                     /\ instance.last_message_sender_state_change_time = INDEFINITE_TIME
           /\ ~instance.message_receiver
                  => /\ instance.message_receiver_current_state = "IDLE"
                     /\ instance.message_receiver_previous_state = "IDLE"
                     /\ instance.last_message_receiver_state_change_time = INDEFINITE_TIME

(* ------------------------------ twin layer ---------------------------- *)

\* DEFINE_ENUM(AMQP_MESSENGER_SEND_STATUS, ...): the enumerators in order
AMQP_MESSENGER_SEND_STATUS_IDLE == 0
AMQP_MESSENGER_SEND_STATUS_BUSY == 1

\* file-scope statics of the twin messenger; nothing assigns them
DEFAULT_DEVICES_PATH_FORMAT == "%s/devices/%s"
DEFAULT_TWIN_SEND_LINK_SOURCE_NAME == "twin/"
DEFAULT_TWIN_RECEIVE_LINK_TARGET_NAME == "twin/"
DEFAULT_AMQP_SEND_LINK_ATTACH_PROPERTIES == NULL
DEFAULT_AMQP_RECEIVE_LINK_ATTACH_PROPERTIES == NULL

TWIN_CORRELATION_ID_PROPERTY_NAME == "com.microsoft:channel-correlation-id"
TWIN_API_VERSION_PROPERTY_NAME == "com.microsoft:api-version"

\* the handle of a TWIN_MESSENGER_INSTANCE whose amqp_msgr is the messenger
\* of this model
TwinHandle == "twin_msgr"

\* create_link_attach_properties: the two entries of the map
create_link_attach_properties(w) ==
    Log(Log(w, "Map_Add", TWIN_CORRELATION_ID_PROPERTY_NAME, "twin:<uuid>"),
        "Map_Add", TWIN_API_VERSION_PROPERTY_NAME, "1.0")

\* twin_messenger_create: config is a record [given, device_id,
\* iothub_host_fqdn]; failure names the allocation that fails, or "none"
twin_messenger_create(w, config, failure) ==
    IF \/ DEFAULT_AMQP_SEND_LINK_ATTACH_PROPERTIES = NULL
       \/ DEFAULT_AMQP_SEND_LINK_ATTACH_PROPERTIES = NULL
    THEN [w |-> Log(w, "twin_messenger_create", NULL, ""), handle |-> NULL]
    ELSE IF ~config.given
    THEN [w |-> Log(w, "twin_messenger_create", NULL, ""), handle |-> NULL]
    ELSE IF config.device_id = NULL \/ config.iothub_host_fqdn = NULL
    THEN [w |-> Log(w, "twin_messenger_create", NULL, ""), handle |-> NULL]
    ELSE IF failure \in {"malloc", "device_id", "iothub_host_fqdn",
                         "create_link_attach_properties"}
    THEN [w |-> Log(w, "twin_messenger_create", NULL, ""), handle |-> NULL]
    ELSE LET w1 == create_link_attach_properties(w)
         IN  IF failure = "amqp_messenger_create"
             THEN [w |-> Log(w1, "twin_messenger_create", NULL, ""), handle |-> NULL]
             ELSE LET w2 == Log(w1, "amqp_messenger_create",
                                "devices_path_format", DEFAULT_DEVICES_PATH_FORMAT)
                      w3 == Log(w2, "amqp_messenger_create",
                                "send_link_target_suffix",
                                DEFAULT_TWIN_SEND_LINK_SOURCE_NAME)
                      w4 == Log(w3, "amqp_messenger_create",
                                "receive_link_source_suffix",
                                DEFAULT_TWIN_RECEIVE_LINK_TARGET_NAME)
                  IN  [w |-> Log(FreshWorld(w4), "twin_messenger_create",
                                 TwinHandle, "STOPPED"),
                       handle |-> TwinHandle]

\* twin_messenger_get_send_status: the ternary tests the enumerator
\* AMQP_MESSENGER_SEND_STATUS_BUSY, not the status that was read
twin_messenger_get_send_status(w, twin_msgr_handle, send_status_given) ==
    IF twin_msgr_handle = NULL \/ ~send_status_given
    THEN [w |-> w, send_status |-> NULL, result |-> FAILURE]
    ELSE LET r == amqp_messenger_get_send_status_into(w, TRUE)
             w1 == Log(w, "amqp_messenger_get_send_status", r.send_status, "")
         IN  IF r.result # 0
             THEN [w |-> w1, send_status |-> NULL, result |-> FAILURE]
             ELSE [w |-> w1,
                   send_status |-> IF AMQP_MESSENGER_SEND_STATUS_BUSY # 0
                                   THEN "BUSY" ELSE "IDLE",
                   result |-> RESULT_OK]

TwinConfigs ==
    [given : BOOLEAN, device_id : {NULL, "device"}, iothub_host_fqdn : {NULL, "hub"}]

TwinCreateFailures ==
    {"none", "malloc", "device_id", "iothub_host_fqdn",
     "create_link_attach_properties", "amqp_messenger_create"}

TwinCreate ==
    /\ lifecycle = "created"
    /\ \E config \in TwinConfigs, failure \in TwinCreateFailures :
        LET r == twin_messenger_create(Begin(World), config, failure)
        IN  Returns("twin_messenger_create",
                    [config |-> config, failure |-> failure, handle |-> r.handle],
                    r.w, IF r.handle = NULL THEN FAILURE ELSE RESULT_OK)

TwinGetSendStatus ==
    /\ lifecycle = "created"
    /\ \E twin_msgr_handle \in {NULL, TwinHandle}, send_status_given \in BOOLEAN :
        LET r == twin_messenger_get_send_status(Begin(World), twin_msgr_handle,
                                                send_status_given)
        IN  Returns("twin_messenger_get_send_status", r.send_status, r.w, r.result)

NextTwin ==
    \/ TwinCreate
    \/ TwinGetSendStatus
    \/ Start
    \/ Stop
    \/ DoWork
    \/ SendAsyncIn({1})
    \/ SenderStateChangedTo({"OPEN", "ERROR"})
    \/ SendComplete

SpecTwin == Init /\ [][NextTwin]_vars

C40_TwinCreateBuildsCore ==
    [][(/\ last_call'.op = "twin_messenger_create"
        /\ last_call'.arg.config.given
        /\ last_call'.arg.config.device_id # NULL
        /\ last_call'.arg.config.iothub_host_fqdn # NULL
        /\ last_call'.arg.failure = "none")
          => /\ last_call'.arg.handle # NULL
             /\ instance'.state = "STOPPED"
             /\ instance'.send_link_attach_properties
             /\ instance'.receive_link_attach_properties
             /\ \A ev \in {[e |-> "Map_Add", a |-> TWIN_CORRELATION_ID_PROPERTY_NAME,
                            b |-> "twin:<uuid>"],
                           [e |-> "Map_Add", a |-> TWIN_API_VERSION_PROPERTY_NAME,
                            b |-> "1.0"],
                           [e |-> "amqp_messenger_create", a |-> "devices_path_format",
                            b |-> "%s/devices/%s"],
                           [e |-> "amqp_messenger_create",
                            a |-> "send_link_target_suffix", b |-> "twin/"],
                           [e |-> "amqp_messenger_create",
                            a |-> "receive_link_source_suffix", b |-> "twin/"]} :
                    \E k \in 1..Len(observed'.events) : observed'.events[k] = ev]_vars

====
